---------------------------- MODULE Spec2Model ----------------------------
(***************************************************************************)
(* A model of the ArticleScraper repository: the Readability extraction   *)
(* engine (src/readability.js) and, in later sections, the hosting page   *)
(* and its service worker.                                                 *)
(*                                                                         *)
(* The DOM is modelled as a heap of nodes: a function from node ids to     *)
(* records holding the tag, the parent, the ordered child list and the     *)
(* attributes the engine reads.  Text nodes are nodes with tag "#text";    *)
(* only the length of their (trimmed, normalised) text and the number of   *)
(* commas in it are kept, which is all the engine reads of a text.         *)
(***************************************************************************)
EXTENDS Integers, Sequences, FiniteSets, TLC

(***************************************************************************)
(* Bounds of the model.                                                    *)
(***************************************************************************)
\* Number of node slots of one tree (the body or a working clone).
MaxNodes == 14

(***************************************************************************)
(* Program constants.                                                      *)
(***************************************************************************)
DEFAULT_MAX_ELEMS_TO_PARSE == 0
DEFAULT_N_TOP_CANDIDATES == 5
DEFAULT_CHAR_THRESHOLD == 500
FLAG_STRIP_UNLIKELYS == "StripUnlikely"
FLAG_WEIGHT_CLASSES == "WeightClasses"
FLAG_CLEAN_CONDITIONALLY == "CleanConditionally"
DEFAULT_TAGS_TO_SCORE == {"SECTION", "H2", "H3", "H4", "H5", "H6", "P", "TD", "PRE"}
DIV_TO_P_ELEMS == {"BLOCKQUOTE", "DL", "DIV", "IMG", "OL", "P", "PRE", "TABLE", "UL"}
ALTER_TO_DIV_EXCEPTIONS == {"DIV", "ARTICLE", "SECTION", "P", "OL", "UL"}
PHRASING_ELEMS ==
  {"ABBR", "AUDIO", "B", "BDO", "BR", "BUTTON", "CITE", "CODE", "DATA",
   "DATALIST", "DFN", "EM", "EMBED", "I", "IMG", "INPUT", "KBD", "LABEL",
   "MARK", "MATH", "METER", "NOSCRIPT", "OBJECT", "OUTPUT", "PROGRESS",
   "Q", "RUBY", "SAMP", "SCRIPT", "SELECT", "SMALL", "SPAN", "STRONG",
   "SUB", "SUP", "TEXTAREA", "TIME", "VAR", "WBR"}
UNLIKELY_ROLES ==
  {"menu", "menubar", "complementary", "navigation", "alert", "alertdialog", "dialog"}

(***************************************************************************)
(* The regular expressions of REGEXPS, as the sets of the class names of   *)
(* the model's alphabet that each one matches.  The alphabet:              *)
(*   ""  "sidebar"  "menu"  "promo"  "content"  "article-footer"           *)
(*   "byline"  "share"                                                     *)
(***************************************************************************)
ClassNames == {"", "sidebar", "menu", "promo", "content", "article-footer", "byline", "share"}
unlikelyCandidates == {"sidebar", "menu", "article-footer"}
okMaybeItsACandidate == {"content", "article-footer"}
positive == {"content", "article-footer"}
negative == {"sidebar", "promo", "article-footer", "share"}
byline == {"byline"}
shareElements == {"share"}

(***************************************************************************)
(* Small arithmetic helpers.                                               *)
(***************************************************************************)
Min(a, b) == IF a < b THEN a ELSE b
Max(a, b) == IF a > b THEN a ELSE b

RECURSIVE Gcd(_, _)
Gcd(a, b) == IF b = 0 THEN a ELSE Gcd(b, a % b)

RECURSIVE SumSeq(_)
SumSeq(s) == IF s = <<>> THEN 0 ELSE Head(s) + SumSeq(Tail(s))

RECURSIVE FlatSeq(_)
FlatSeq(ss) == IF ss = <<>> THEN <<>> ELSE Head(ss) \o FlatSeq(Tail(ss))

SeqToSet(s) == {s[i] : i \in 1 .. Len(s)}
Reverse(s) == [i \in 1 .. Len(s) |-> s[Len(s) + 1 - i]]

\* The index of the first occurrence of x in s, or 0.
IndexOf(s, x) ==
  IF \E i \in 1 .. Len(s) : s[i] = x
    THEN CHOOSE i \in 1 .. Len(s) : s[i] = x /\ \A j \in 1 .. (i - 1) : s[j] # x
    ELSE 0

RemoveFromSeq(s, x) == SelectSeq(s, LAMBDA y : y # x)

\* s with x inserted before position i (1 .. Len(s) + 1).
InsertAt(s, i, x) == SubSeq(s, 1, i - 1) \o <<x>> \o SubSeq(s, i, Len(s))

(***************************************************************************)
(* Exact rationals n/d (d > 0) for content scores and densities: the code  *)
(* uses floating point, the model the exact quotient.                      *)
(***************************************************************************)
Rat(n, d) ==
  LET g == Gcd(IF n < 0 THEN -n ELSE n, d)
  IN  IF g = 0 THEN [n |-> 0, d |-> 1] ELSE [n |-> n \div g, d |-> d \div g]
RInt(k) == [n |-> k, d |-> 1]
RAdd(a, b) == Rat(a.n * b.d + b.n * a.d, a.d * b.d)
RMul(a, b) == Rat(a.n * b.n, a.d * b.d)
RLt(a, b) == a.n * b.d < b.n * a.d
RLe(a, b) == a.n * b.d <= b.n * a.d
RMax(a, b) == IF RLt(a, b) THEN b ELSE a
\* "No readability object": node.readability is undefined.
NoScore == [n |-> 0, d |-> 0]

(***************************************************************************)
(* The DOM heap.                                                           *)
(***************************************************************************)
Nil == 0 - 1
NodeIds == 0 .. (MaxNodes - 1)

\* A tree given by a rule, tabulated node by node.
Tabulate(f) == IF f = f THEN f ELSE f

\* A URI is [scheme, auth, path]: scheme is "" or the protocol with its colon,
\* auth the authority after "//" ("" when there is none) and path the rest, a
\* sequence of pieces.  "//cdn.test/x.png" is ["", "cdn.test", <<"/x.png">>].
NoUri == [scheme |-> "", auth |-> "", path |-> <<>>]

\* An unused slot of the heap.
\* tag: tagName ("#text" for a text node, "" for an unused slot); par, kids:
\* parentNode and childNodes; cls, id, hid, amodal, role, rel, iprop, dir, href,
\* src, poster, srcset: the attributes class, id, hidden/style/aria-hidden,
\* aria-modal, role, rel, itemprop, dir, href, src, poster and srcset (the
\* URLs of its candidates); len, com, dot, txt: of a text node, the length of
\* its text (0: a whitespace-only text), its commas, whether it has a period
\* and the token of its content; sc: node.readability.contentScore; dt:
\* _readabilityDataTable.
Free ==
  [tag |-> "", par |-> Nil, kids |-> <<>>, cls |-> "", id |-> "", len |-> 0,
   com |-> 0, dot |-> FALSE, txt |-> "", hid |-> "", amodal |-> FALSE, role |-> "",
   rel |-> "", iprop |-> "", dir |-> "", href |-> NoUri, src |-> NoUri,
   poster |-> NoUri, srcset |-> <<>>, sc |-> NoScore, dt |-> FALSE]

\* document.createElement(tag): a detached element without attributes.
NewElement(tag) == [Free EXCEPT !.tag = tag]

IsElement(t, n) == n # Nil /\ t[n].tag \notin {"", "#text"}
IsText(t, n) == n # Nil /\ t[n].tag = "#text"

\* node.children: the element children, in order.
Children(t, n) == SelectSeq(t[n].kids, LAMBDA k : IsElement(t, k))

FirstElementChild(t, n) ==
  IF Children(t, n) = <<>> THEN Nil ELSE Head(Children(t, n))

\* node.nextSibling
NextSibling(t, n) ==
  IF t[n].par = Nil THEN Nil
  ELSE LET ks == t[t[n].par].kids
           i == IndexOf(ks, n)
       IN  IF i = 0 \/ i = Len(ks) THEN Nil ELSE ks[i + 1]

RECURSIVE NextElementFrom(_, _)
\* The first element at or after node n among its siblings.
NextElementFrom(t, n) ==
  IF n = Nil THEN Nil
  ELSE IF IsElement(t, n) THEN n
  ELSE NextElementFrom(t, NextSibling(t, n))

NextElementSibling(t, n) == NextElementFrom(t, NextSibling(t, n))

\* The smallest unused slot.
FreshId(t) ==
  LET free == {i \in NodeIds : t[i].tag = ""}
  IN  CHOOSE i \in free : \A j \in free : i <= j

RECURSIVE Descendants(_, _)
\* All descendants of n (elements and texts), in document order.
Descendants(t, n) ==
  FlatSeq([i \in 1 .. Len(t[n].kids) |->
             <<t[n].kids[i]>> \o Descendants(t, t[n].kids[i])])

\* node.querySelectorAll(tags) / getElementsByTagName: descendant elements
\* with a tag in tags, in document order.
GetAllNodesWithTag(t, n, tags) ==
  SelectSeq(Descendants(t, n), LAMBDA k : t[k].tag \in tags)

\* getElementsByTagName("*") below n.
AllElements(t, n) == SelectSeq(Descendants(t, n), LAMBDA k : IsElement(t, k))

RECURSIVE Ancestors(_, _)
\* parentNode chain of n, parent first.
Ancestors(t, n) ==
  IF t[n].par = Nil THEN <<>> ELSE <<t[n].par>> \o Ancestors(t, t[n].par)

\* parentNode.removeChild(node): the node is detached with its subtree.
RemoveChild(t, n) ==
  IF t[n].par = Nil THEN t
  ELSE [t EXCEPT ![t[n].par].kids = RemoveFromSeq(@, n), ![n].par = Nil]

\* parent.appendChild(n): n moves (with its subtree) to the end of parent.
AppendChild(t, parent, n) ==
  LET t1 == RemoveChild(t, n)
  IN  [t1 EXCEPT ![parent].kids = Append(@, n), ![n].par = parent]

\* parent.insertBefore(n, ref)
InsertBefore(t, parent, n, ref) ==
  LET t1 == RemoveChild(t, n)
      i == IndexOf(t1[parent].kids, ref)
  IN  [t1 EXCEPT ![parent].kids = InsertAt(@, i, n), ![n].par = parent]

\* parent.replaceChild(new, old): new takes old's place, old is detached.
ReplaceChild(t, new, old) ==
  LET t1 == RemoveChild(t, new)
      p == t1[old].par
  IN  [t1 EXCEPT ![p].kids = [i \in 1 .. Len(@) |-> IF @[i] = old THEN new ELSE @[i]],
                 ![new].par = p,
                 ![old].par = Nil]

\* Slots that hold no node reachable from one of the roots are released.
Collect(t, roots) ==
  LET live == roots \cup UNION {SeqToSet(Descendants(t, r)) : r \in roots}
  IN  Tabulate([i \in NodeIds |-> IF i \in live THEN t[i] ELSE Free])

\* The text nodes that make up node.textContent, in document order.
TextNodes(t, n) ==
  IF IsText(t, n) THEN <<n>>
  ELSE SelectSeq(Descendants(t, n), LAMBDA k : IsText(t, k))

\* node.textContent.length: a whitespace-only text counts one character.
TextContentLength(t, n) ==
  LET ts == TextNodes(t, n)
  IN  SumSeq([i \in 1 .. Len(ts) |-> IF t[ts[i]].len = 0 THEN 1 ELSE t[ts[i]].len])

\* REGEXPS.hasContent (/\S$/) on node.textContent: the text ends with a
\* character that is not whitespace.
HasContent(t, n) ==
  LET ts == TextNodes(t, n)
  IN  ts # <<>> /\ t[ts[Len(ts)]].len > 0

\* The content-bearing texts of node.textContent.trim().
ContentTexts(t, n) == SelectSeq(TextNodes(t, n), LAMBDA k : t[k].len > 0)

\* _getInnerText(e).length: the text is trimmed and each run of whitespace
\* between two content texts is normalised to one character.
GetInnerTextLength(t, n) ==
  LET ts == TextNodes(t, n)
      cs == {i \in 1 .. Len(ts) : t[ts[i]].len > 0}
      gaps == {i \in cs : (i + 1) \in 1 .. Len(ts) /\ t[ts[i + 1]].len = 0
                           /\ \E j \in cs : j > i}
  IN  SumSeq([i \in 1 .. Len(ts) |-> t[ts[i]].len]) + Cardinality(gaps)

\* The number of commas in _getInnerText(e).
GetCharCount(t, n) ==
  LET ts == TextNodes(t, n)
  IN  SumSeq([i \in 1 .. Len(ts) |-> t[ts[i]].com])

(***************************************************************************)
(* Node-level helpers of Readability.prototype.                            *)
(***************************************************************************)
\* A regular expression tested on matchString = className + " " + id.
Matches(re, t, n) == t[n].cls \in re \/ t[n].id \in re

\* _flagIsActive(flag), given this._flags.
FlagIsActive(fl, flag) == flag \in fl

RECURSIVE IsPhrasingContent(_, _)
IsPhrasingContent(t, n) ==
  \/ IsText(t, n)
  \/ t[n].tag \in PHRASING_ELEMS
  \/ /\ t[n].tag \in {"A", "DEL", "INS"}
     /\ \A i \in 1 .. Len(t[n].kids) : IsPhrasingContent(t, t[n].kids[i])

IsWhitespace(t, n) ==
  \/ IsText(t, n) /\ t[n].len = 0
  \/ IsElement(t, n) /\ t[n].tag = "BR"

HasSingleTagInsideElement(t, n, tag) ==
  /\ Len(Children(t, n)) = 1
  /\ t[Children(t, n)[1]].tag = tag
  /\ ~ \E i \in 1 .. Len(t[n].kids) :
         IsText(t, t[n].kids[i]) /\ t[t[n].kids[i]].len > 0

RECURSIVE IsElementWithoutContent(_, _)
IsElementWithoutContent(t, n) ==
  IF ~ IsElement(t, n) THEN FALSE
  ELSE IF HasContent(t, n) THEN FALSE
  ELSE ~ \E i \in 1 .. Len(Children(t, n)) :
           LET c == Children(t, n)[i]
           IN  t[c].tag # "BR" /\ t[c].tag # "HR" /\ ~ IsElementWithoutContent(t, c)

RECURSIVE HasChildBlockElement(_, _)
HasChildBlockElement(t, n) ==
  \E i \in 1 .. Len(t[n].kids) :
    LET c == t[n].kids[i]
    IN  IsElement(t, c) /\ (t[c].tag \in DIV_TO_P_ELEMS \/ HasChildBlockElement(t, c))

\* REGEXPS.hashUrl on an href value.
IsHashUrl(href) == href.scheme = "" /\ href.auth = "" /\ href.path = <<"#frag">>

\* _getLinkDensity(element), times ten in the numerator: a hash link counts
\* 0.3 of its text length.
GetLinkDensity(t, n) ==
  LET textLength == GetInnerTextLength(t, n)
      links == GetAllNodesWithTag(t, n, {"A"})
      linkLength10 ==
        SumSeq([i \in 1 .. Len(links) |->
                  GetInnerTextLength(t, links[i])
                    * (IF IsHashUrl(t[links[i]].href) THEN 3 ELSE 10)])
  IN  IF textLength = 0 THEN RInt(0) ELSE Rat(linkLength10, 10 * textLength)

\* A class weight that does not look at the flags.
WeightWithoutFlag(fl, t, n) ==
  (IF t[n].cls # "" /\ t[n].cls \in negative THEN -25 ELSE 0)
  + (IF t[n].cls # "" /\ t[n].cls \in positive THEN 25 ELSE 0)

\* _getClassWeight(e)
GetClassWeight(fl, t, n) ==
  IF ~ FlagIsActive(fl, FLAG_WEIGHT_CLASSES) THEN 0
  ELSE (IF t[n].cls # "" /\ t[n].cls \in negative THEN -25 ELSE 0)
       + (IF t[n].cls # "" /\ t[n].cls \in positive THEN 25 ELSE 0)
       + (IF t[n].id # "" /\ t[n].id \in negative THEN -25 ELSE 0)
       + (IF t[n].id # "" /\ t[n].id \in positive THEN 25 ELSE 0)

\* The tag-based base score of _initializeNode.
TagScore(tag) ==
  CASE tag = "DIV" -> 5
    [] tag \in {"PRE", "TD", "BLOCKQUOTE"} -> 3
    [] tag \in {"ADDRESS", "OL", "UL", "DL", "DD", "DT", "LI", "FORM"} -> -3
    [] tag \in {"H1", "H2", "H3", "H4", "H5", "H6", "TH"} -> -5
    [] OTHER -> 0

HasReadability(t, n) == t[n].sc.d # 0

\* An initialisation without the guard against a second one.
ReinitializeNode(fl, t, n) ==
  [t EXCEPT ![n].sc = RInt(TagScore(t[n].tag) + GetClassWeight(fl, t, n))]

\* _initializeNode(node)
InitializeNode(fl, t, n) ==
  IF HasReadability(t, n) THEN t
  ELSE [t EXCEPT ![n].sc = RInt(TagScore(t[n].tag) + GetClassWeight(fl, t, n))]

\* _getNextNode(node, ignoreSelfAndKids)
RECURSIVE ParentNextElementSibling(_, _)
ParentNextElementSibling(t, parent) ==
  IF parent = Nil THEN Nil
  ELSE IF NextElementSibling(t, parent) # Nil THEN NextElementSibling(t, parent)
  ELSE ParentNextElementSibling(t, t[parent].par)

GetNextNode(t, n, ignoreSelfAndKids) ==
  IF n = Nil THEN Nil
  ELSE IF ~ ignoreSelfAndKids /\ FirstElementChild(t, n) # Nil THEN FirstElementChild(t, n)
  ELSE IF NextElementSibling(t, n) # Nil THEN NextElementSibling(t, n)
  ELSE ParentNextElementSibling(t, t[n].par)

\* A removal after which the walk goes on inside the removed node.
RemoveAndDescend(t, n) == <<RemoveChild(t, n), GetNextNode(t, n, FALSE)>>

\* _removeAndGetNext(node): <<tree, next node>>.
RemoveAndGetNext(t, n) == <<RemoveChild(t, n), GetNextNode(t, n, TRUE)>>

\* _getNodeAncestors(node, maxDepth)
GetNodeAncestors(t, n, maxDepth) ==
  LET all == Ancestors(t, n)
  IN  IF maxDepth > 0 /\ Len(all) > maxDepth THEN SubSeq(all, 1, maxDepth) ELSE all

RECURSIVE HasAncestorTagFrom(_, _, _, _, _, _)
HasAncestorTagFrom(t, current, tagName, maxDepth, depth, dataTableOnly) ==
  IF current = Nil THEN FALSE
  ELSE IF maxDepth > 0 /\ depth >= maxDepth THEN FALSE
  ELSE IF t[current].tag = tagName /\ (~ dataTableOnly \/ t[current].dt) THEN TRUE
  ELSE HasAncestorTagFrom(t, t[current].par, tagName, maxDepth, depth + 1, dataTableOnly)

\* _hasAncestorTag(node, tagName, maxDepth, filterFn): tagName is compared with
\* the (upper case) tagName of each ancestor as it is given; the only filter
\* the code passes is isDataTable.
HasAncestorTag(t, n, tagName, maxDepth, dataTableOnly) ==
  HasAncestorTagFrom(t, t[n].par, tagName, maxDepth, 0, dataTableOnly)

\* _isProbablyVisible(node)
IsProbablyVisible(t, n) ==
  /\ t[n].hid \notin {"display:none", "visibility:hidden", "hidden"}
  /\ (t[n].hid # "aria-hidden" \/ t[n].cls = "fallback-image")

\* _setNodeTag(node, tag): a new element takes the children, the attributes
\* and the readability object of node and replaces it; <<tree, new element>>.
SetNodeTag(t, n, tag) ==
  LET r == FreshId(t)
      t1 == [t EXCEPT ![r] = [t[n] EXCEPT !.tag = tag, !.par = Nil, !.dt = FALSE],
                      ![n].kids = <<>>]
      t2 == Tabulate([i \in NodeIds |->
                        IF t1[i].par = n THEN [t1[i] EXCEPT !.par = r] ELSE t1[i]])
      t3 == IF t2[n].par = Nil THEN t2 ELSE ReplaceChild(t2, r, n)
  IN  <<t3, r>>

(***************************************************************************)
(* Strings.  A string is a sequence of tokens, the empty string <<>>.  A   *)
(* token is a run of words that the model never splits; the tokens "|",    *)
(* "-", "/" and ">>" stand for a title separator between two spaces, the   *)
(* token ":" for a colon followed by a space.  The text of a DOM node is   *)
(* the token txt of its first content-bearing text.                        *)
(***************************************************************************)
SpacedSeparators == {"|", "-", "/", ">>"}
HierarchicalSeparators == {"/", ">>"}
Separators == SpacedSeparators \cup {":"}

\* The number of characters and of words of a token.
TokenLen(s) ==
  CASE s \in SpacedSeparators -> 3
    [] s = ":" -> 2
    [] s = "Site" -> 4
    [] s = "Short" -> 5
    [] s = "Medium Heading" -> 14
    [] s = "Breaking News" -> 13
    [] s = "Example Site" -> 12
    [] s = "Breaking News Today" -> 19
    [] s = "A Much Longer Title Of Six Words" -> 32
    [] OTHER -> 20

TokenWords(s) ==
  CASE s \in SpacedSeparators -> 1
    [] s = ":" -> 0
    [] s \in {"Site", "Short"} -> 1
    [] s \in {"Medium Heading", "Breaking News", "Example Site"} -> 2
    [] s = "A Much Longer Title Of Six Words" -> 7
    [] OTHER -> 3

\* str.length
StrLen(s) == SumSeq([i \in 1 .. Len(s) |-> TokenLen(s[i])])

\* wordCount(str) = str ? str.split(/\s+/).length : 0
WordCount(s) == SumSeq([i \in 1 .. Len(s) |-> TokenWords(s[i])])

\* The tokens of a string that are not separators.
Words(s) == SelectSeq(s, LAMBDA x : x \notin Separators)

\* The string of one token, the empty string for no token.
Str(x) == IF x = "" THEN <<>> ELSE <<x>>

\* node.textContent.trim(), as a token
TextValue(t, n) ==
  IF ContentTexts(t, n) = <<>> THEN "" ELSE t[ContentTexts(t, n)[1]].txt

\* node.textContent.trim().length
TrimmedLength(t, n) ==
  LET ts == TextNodes(t, n)
      cs == {i \in 1 .. Len(ts) : t[ts[i]].len > 0}
      inner == {i \in 1 .. Len(ts) : t[ts[i]].len = 0
                  /\ (\E j \in cs : j < i) /\ (\E j \in cs : j > i)}
  IN  SumSeq([i \in 1 .. Len(ts) |-> t[ts[i]].len]) + Cardinality(inner)

\* The length of tokens joined by single spaces.
JoinedLength(lens) == IF lens = <<>> THEN 0 ELSE SumSeq(lens) + Len(lens) - 1

\* _textSimilarity(textA, textB) for two strings, as a rational.
TextSimilarity(textA, textB) ==
  LET tokensA == Words(textA)
      tokensB == Words(textB)
      uniq == SelectSeq(tokensB, LAMBDA x : x \notin SeqToSet(tokensA))
      lens(ks) == [i \in 1 .. Len(ks) |-> TokenLen(ks[i])]
      total == JoinedLength(lens(tokensB))
  IN  IF tokensA = <<>> \/ tokensB = <<>> \/ total = 0 THEN RInt(0)
      ELSE Rat(total - JoinedLength(lens(uniq)), total)

\* _textSimilarity(title, heading text), as the pair of the length of the
\* tokens of the heading that are not in the title and the length of all its
\* tokens, both joined by single spaces: the similarity is 1 - uniq/total.
\* Each content text of the heading is one token.
HeadingDistance(t, n, title) ==
  LET cs == ContentTexts(t, n)
      us == SelectSeq(cs, LAMBDA k : t[k].txt \notin SeqToSet(Words(title)))
      lens(ks) == [i \in 1 .. Len(ks) |-> t[ks[i]].len]
  IN  [uniq |-> JoinedLength(lens(us)), total |-> JoinedLength(lens(cs))]

\* _headerDuplicatesTitle(node), given this._articleTitle.
HeaderDuplicatesTitle(t, n, title) ==
  IF t[n].tag \notin {"H1", "H2"} THEN FALSE
  ELSE IF title = <<>> THEN FALSE
  ELSE LET dist == HeadingDistance(t, n, title)
           \* similarity = 1 - uniq/total (0 when either has no token)
           simGt(num, den) ==   \* similarity > num/den
             /\ Words(title) # <<>> /\ dist.total > 0
             /\ (dist.total - dist.uniq) * den > num * dist.total
       IN  \/ simGt(3, 4)
           \/ simGt(1, 2) /\ TrimmedLength(t, n) * 3 < StrLen(title) * 2

\* _isValidByline(node, matchString)
IsValidByline(t, n) ==
  IF TextContentLength(t, n) = 0 THEN FALSE
  ELSE IF TrimmedLength(t, n) = 0 \/ TrimmedLength(t, n) > 100 THEN FALSE
  ELSE t[n].rel = "author" \/ t[n].iprop = "author" \/ Matches(byline, t, n)

\* The text of the byline node: the first descendant with itemprop="name"
\* and a text, or the node itself.
BylineText(t, n) ==
  LET names == SelectSeq(Descendants(t, n),
                         LAMBDA k : IsElement(t, k) /\ t[k].iprop = "name"
                                      /\ TextValue(t, k) # "")
  IN  IF names # <<>> THEN Str(TextValue(t, names[1])) ELSE Str(TextValue(t, n))

(***************************************************************************)
(* _grabArticle: the node walk of one attempt.  The walk state w holds the *)
(* tree t, the cursor node, the list elementsToScore (els), attemptByline  *)
(* (byl) and shouldRemoveTitleHeader (rmh).                                *)
(***************************************************************************)
\* End of a run of phrasing children: trailing whitespace is dropped from the
\* wrapper p and an empty wrapper is removed.
RECURSIVE TrimWrapper(_, _)
TrimWrapper(t, p) ==
  LET ks == t[p].kids
  IN  IF ks # <<>> /\ IsWhitespace(t, ks[Len(ks)])
        THEN TrimWrapper(RemoveChild(t, ks[Len(ks)]), p)
        ELSE IF ks = <<>> THEN RemoveChild(t, p) ELSE t

RECURSIVE WrapPhrasing(_, _, _, _)
\* The loop over the child nodes cs of a DIV that moves each run of phrasing
\* children into a new P; p is the open wrapper or Nil.
WrapPhrasing(t, div, cs, p) ==
  IF cs = <<>> THEN (IF p # Nil THEN TrimWrapper(t, p) ELSE t)
  ELSE LET c == Head(cs)
       IN  IF IsPhrasingContent(t, c)
             THEN IF p = Nil /\ ~ IsWhitespace(t, c)
                    THEN LET q == FreshId(t)
                             t1 == InsertBefore([t EXCEPT ![q] = NewElement("P")], div, q, c)
                         IN  WrapPhrasing(AppendChild(t1, q, c), div, Tail(cs), q)
                    ELSE IF p # Nil
                           THEN WrapPhrasing(AppendChild(t, p, c), div, Tail(cs), p)
                           ELSE WrapPhrasing(t, div, Tail(cs), p)
             ELSE IF p # Nil
                    THEN WrapPhrasing(TrimWrapper(t, p), div, Tail(cs), Nil)
                    ELSE WrapPhrasing(t, div, Tail(cs), Nil)

\* The removals of one loop iteration: the reason the node is removed for, or
\* "" when it stays.
RemovalReason(fl, title, w) ==
  LET t == w.t
      n == w.node
  IN  IF ~ IsProbablyVisible(t, n) THEN "hidden"
      ELSE IF t[n].amodal /\ t[n].role = "dialog" THEN "modal"
      ELSE IF w.byl = <<>> /\ IsValidByline(t, n) THEN "byline"
      ELSE IF w.rmh /\ title # <<>> /\ HeaderDuplicatesTitle(t, n, title) THEN "title"
      ELSE IF /\ FlagIsActive(fl, FLAG_STRIP_UNLIKELYS)
              /\ Matches(unlikelyCandidates, t, n)
              /\ ~ Matches(okMaybeItsACandidate, t, n)
              /\ t[n].tag # "BODY"
              /\ t[n].tag # "A"
              /\ ~ HasAncestorTag(t, n, "table", 3, FALSE)
              /\ ~ HasAncestorTag(t, n, "code", 3, FALSE)
             THEN "unlikely"
      ELSE IF FlagIsActive(fl, FLAG_STRIP_UNLIKELYS) /\ t[n].role \in UNLIKELY_ROLES
             THEN "role"
      ELSE IF /\ t[n].tag \in {"DIV", "SECTION", "HEADER", "H1", "H2", "H3", "H4", "H5", "H6"}
              /\ IsElementWithoutContent(t, n)
             THEN "empty"
      ELSE ""

\* One iteration of the while (node) loop.
WalkStep(fl, title, w) ==
  LET t == w.t
      n == w.node
      why == RemovalReason(fl, title, w)
  IN  IF t[n].par = Nil THEN [w EXCEPT !.node = GetNextNode(t, n, TRUE)]
      ELSE IF why # ""
        THEN [w EXCEPT !.t = RemoveAndGetNext(t, n)[1],
                       !.node = RemoveAndGetNext(t, n)[2],
                       !.byl = IF why = "byline" THEN BylineText(t, n) ELSE @,
                       !.rmh = IF why = "title" THEN FALSE ELSE @]
      ELSE IF t[n].tag = "DIV"
        THEN LET t1 == WrapPhrasing(t, n, t[n].kids, Nil)
             IN  IF HasSingleTagInsideElement(t1, n, "P")
                      /\ RLt(GetLinkDensity(t1, n), Rat(1, 4))
                   THEN LET newNode == Children(t1, n)[1]
                        IN  [w EXCEPT !.t = ReplaceChild(t1, newNode, n),
                                      !.node = newNode,
                                      !.els = IF t1[newNode].tag \in DEFAULT_TAGS_TO_SCORE
                                                THEN Append(@, newNode) ELSE @]
                   ELSE IF ~ HasChildBlockElement(t1, n)
                     THEN LET r == SetNodeTag(t1, n, "P")
                          IN  [w EXCEPT !.t = r[1], !.node = r[2], !.els = Append(@, r[2])]
                     ELSE [w EXCEPT !.t = t1,
                                    !.els = IF t[n].tag \in DEFAULT_TAGS_TO_SCORE
                                              THEN Append(@, n) ELSE @,
                                    !.node = GetNextNode(t1, n, FALSE)]
      ELSE [w EXCEPT !.els = IF t[n].tag \in DEFAULT_TAGS_TO_SCORE THEN Append(@, n) ELSE @,
                     !.node = GetNextNode(t, n, FALSE)]

(***************************************************************************)
(* _grabArticle: candidate scoring and selection.                          *)
(***************************************************************************)
\* The divider of the score an ancestor at the given level receives.
ScoreDivider(level) == IF level = 0 THEN 1 ELSE IF level = 1 THEN 2 ELSE level * 3

RECURSIVE ScoreAncestors(_, _, _, _, _)
\* ancestors.forEach: s is <<tree, candidates>>, level counts from 0.
ScoreAncestors(fl, s, ancs, level, contentScore) ==
  IF ancs = <<>> THEN s
  ELSE LET a == Head(ancs)
           t == s[1]
       IN  IF ~ IsElement(t, a) \/ t[a].par = Nil
             THEN ScoreAncestors(fl, s, Tail(ancs), level + 1, contentScore)
             ELSE LET t1 == InitializeNode(fl, t, a)
                      c1 == IF HasReadability(t, a) THEN s[2] ELSE Append(s[2], a)
                      t2 == [t1 EXCEPT ![a].sc =
                               RAdd(@, Rat(contentScore, ScoreDivider(level)))]
                  IN  ScoreAncestors(fl, <<t2, c1>>, Tail(ancs), level + 1, contentScore)

RECURSIVE ScoreElements(_, _, _)
\* for (const elementToScore of elementsToScore)
ScoreElements(fl, s, els) ==
  IF els = <<>> THEN s
  ELSE LET e == Head(els)
           t == s[1]
           innerLength == GetInnerTextLength(t, e)
           ancestors == GetNodeAncestors(t, e, 5)
           contentScore == 1 + GetCharCount(t, e) + Min(innerLength \div 100, 3)
       IN  IF t[e].par = Nil \/ innerLength < 25 \/ ancestors = <<>>
             THEN ScoreElements(fl, s, Tail(els))
             ELSE ScoreElements(fl, ScoreAncestors(fl, s, ancestors, 0, contentScore),
                                Tail(els))

\* candidate.readability.contentScore * (1 - this._getLinkDensity(candidate))
ScaledScore(t, c) ==
  LET ld == GetLinkDensity(t, c)
  IN  RMul(t[c].sc, Rat(ld.d - ld.n, ld.d))

\* A ranking that keeps the first nb candidates in the order they come.
RankUnordered(nb, t, tops, c, candidateScore) ==
  <<[t EXCEPT ![c].sc = candidateScore], IF Len(tops) < nb THEN Append(tops, c) ELSE tops>>

\* The candidate c, with its scaled score, takes its place among the top nb:
\* <<tree, topCandidates>>.
RankCandidate(nb, t, tops, c, candidateScore) ==
  LET t1 == [t EXCEPT ![c].sc = candidateScore]
      places == {i \in 1 .. nb : i > Len(tops) \/ RLt(t1[tops[i]].sc, candidateScore)}
  IN  IF places = {} THEN <<t1, tops>>
      ELSE <<t1, SubSeq(InsertAt(tops, CHOOSE i \in places : \A j \in places : i <= j, c),
                        1, Min(Len(tops) + 1, nb))>>

RECURSIVE RankCandidates(_, _, _)
\* for (const candidate of candidates): s is <<tree, topCandidates>>.
RankCandidates(nb, s, cands) ==
  IF cands = <<>> THEN s
  ELSE RankCandidates(nb, RankCandidate(nb, s[1], s[2], Head(cands),
                                        ScaledScore(s[1], Head(cands))),
                      Tail(cands))

\* topCandidates[i].readability.contentScore / topCandidate.readability
\* .contentScore >= 0.75, as the floating point division decides it.
ScoreRatioAtLeast34(other, top) ==
  IF top.n > 0 THEN RLe(RMul(top, Rat(3, 4)), other)
  ELSE IF top.n < 0 THEN RLe(other, RMul(top, Rat(3, 4)))
  ELSE other.n > 0

RECURSIVE CommonAncestor(_, _, _)
\* The first ancestor of the top candidate below BODY that at least three of
\* the alternative ancestor lists contain, or Nil.
CommonAncestor(t, p, lists) ==
  IF p = Nil \/ t[p].tag = "BODY" THEN Nil
  ELSE IF Cardinality({i \in 1 .. Len(lists) : p \in SeqToSet(lists[i])}) >= 3 THEN p
  ELSE CommonAncestor(t, t[p].par, lists)

RECURSIVE HigherParent(_, _, _, _, _)
\* A climb that adopts a parent that scores higher than the top candidate
\* and goes on from it.
HigherParent(t, p, lastScore, scoreThreshold, top) ==
  IF p = Nil \/ t[p].tag = "BODY" THEN top
  ELSE IF ~ HasReadability(t, p)
         THEN HigherParent(t, t[p].par, lastScore, scoreThreshold, top)
  ELSE IF RLt(RMul(t[top].sc, Rat(1, 3)), t[p].sc) /\ RLt(t[top].sc, t[p].sc)
         THEN HigherParent(t, t[p].par, t[p].sc, RMul(t[p].sc, Rat(1, 3)), p)
  ELSE top

RECURSIVE BetterParent(_, _, _, _, _)
\* The parent boost: the walk up from the top candidate stops at the first
\* scored ancestor below a third of its score, or adopts the first one that
\* scores higher than the previous.
BetterParent(t, p, lastScore, scoreThreshold, top) ==
  IF p = Nil \/ t[p].tag = "BODY" THEN top
  ELSE IF ~ HasReadability(t, p)
         THEN BetterParent(t, t[p].par, lastScore, scoreThreshold, top)
  ELSE IF RLt(t[p].sc, scoreThreshold) THEN top
  ELSE IF RLt(lastScore, t[p].sc) THEN p
  ELSE BetterParent(t, t[p].par, t[p].sc, scoreThreshold, top)

RECURSIVE OnlyChildParent(_, _)
\* The top candidate is replaced by its parent while it is the only child.
OnlyChildParent(t, top) ==
  LET p == t[top].par
  IN  IF p # Nil /\ t[p].tag # "BODY" /\ Len(Children(t, p)) = 1
        THEN OnlyChildParent(t, p) ELSE top

RECURSIVE MoveChildren(_, _, _)
\* while (from.firstChild) to.appendChild(from.firstChild)
MoveChildren(t, from, to) ==
  IF t[from].kids = <<>> THEN t
  ELSE MoveChildren(AppendChild(t, to, t[from].kids[1]), from, to)

\* The scoring of the elements to score and the ranking of the candidates:
\* <<tree, topCandidates>>.
ScoreAndRank(fl, nb, t, els) ==
  LET scored == ScoreElements(fl, <<t, <<>> >>, els)
  IN  RankCandidates(nb, <<scored[1], <<>> >>, scored[2])

\* Without a top candidate, or with BODY as the top candidate, the children
\* of the page move into a new DIV, which becomes the top candidate.
SynthesizeTop(fl, t, root, tops) ==
  LET w == FreshId(t)
      moved == MoveChildren([t EXCEPT ![w] = NewElement("DIV")], root, w)
  IN  [t |-> InitializeNode(fl, moved, w), top |-> w, needed |-> TRUE, tops |-> tops]

\* alternativeCandidateAncestors: the ancestors of each other top candidate
\* whose score is at least 0.75 of the top candidate's.
AlternativeAncestors(t, tops) ==
  LET alts == SelectSeq(Tail(tops),
                LAMBDA c : ScoreRatioAtLeast34(t[c].sc, t[tops[1]].sc))
  IN  [i \in 1 .. Len(alts) |-> GetNodeAncestors(t, alts[i], 0)]

\* With three alternatives or more, an ancestor that three of their lists
\* contain replaces the top candidate.
PromoteCommon(t, top, lists) ==
  LET common == IF Len(lists) >= 3 THEN CommonAncestor(t, t[top].par, lists) ELSE Nil
  IN  IF common # Nil THEN common ELSE top

\* The walk up the parents for a better score, then up the only children.
ClimbParents(t, top) ==
  OnlyChildParent(t, BetterParent(t, t[top].par, t[top].sc,
                                  RMul(t[top].sc, Rat(1, 3)), top))

\* The else branch of the selection, from the top candidate top1 the
\* alternatives left.
RefineTop(fl, t, top1, initialize, tops) ==
  LET t2 == IF initialize THEN InitializeNode(fl, t, top1) ELSE t
      top3 == ClimbParents(t2, top1)
  IN  [t |-> InitializeNode(fl, t2, top3), top |-> top3, needed |-> FALSE, tops |-> tops]

\* The selection from the ranked candidates.
SelectFrom(fl, ranked, root) ==
  LET t == ranked[1]
      tops == ranked[2]
      lists == AlternativeAncestors(t, tops)
  IN  IF tops = <<>> \/ t[tops[1]].tag = "BODY"
        THEN SynthesizeTop(fl, t, root, tops)
        ELSE RefineTop(fl, t, PromoteCommon(t, tops[1], lists), Len(lists) >= 3, tops)

\* The selection of the top candidate of one attempt, from the walked tree t
\* rooted at root: [t, top, needed, tops].
SelectTopCandidate(fl, nb, t, root, els) ==
  SelectFrom(fl, ScoreAndRank(fl, nb, t, els), root)

(***************************************************************************)
(* _grabArticle: the collection of the siblings of the top candidate.      *)
(***************************************************************************)
\* nodeContent.includes(".")
HasPeriod(t, n) == \E k \in SeqToSet(TextNodes(t, n)) : t[k].dot

\* A joining that takes the top candidate and the scored siblings only.
AppendScoredSibling(t, sibling, top) ==
  \/ sibling = top
  \/ /\ HasReadability(t, sibling)
     /\ RLe(RMax(RInt(10), RMul(t[top].sc, Rat(1, 5))),
            RAdd(t[sibling].sc, IF t[sibling].cls # "" /\ t[sibling].cls = t[top].cls
                                  THEN RMul(t[top].sc, Rat(1, 5)) ELSE RInt(0)))

\* Whether a sibling of the top candidate joins the article.
AppendSibling(t, sibling, top) ==
  LET contentBonus == IF t[sibling].cls # "" /\ t[sibling].cls = t[top].cls
                        THEN RMul(t[top].sc, Rat(1, 5)) ELSE RInt(0)
      siblingScoreThreshold == RMax(RInt(10), RMul(t[top].sc, Rat(1, 5)))
      linkDensity == GetLinkDensity(t, sibling)
      nodeLength == GetInnerTextLength(t, sibling)
  IN  IF sibling = top THEN TRUE
      ELSE IF HasReadability(t, sibling)
                /\ RLe(siblingScoreThreshold, RAdd(t[sibling].sc, contentBonus))
             THEN TRUE
      ELSE IF t[sibling].tag = "P"
             THEN \/ nodeLength > 80 /\ RLt(linkDensity, Rat(1, 4))
                  \/ nodeLength > 0 /\ nodeLength < 80 /\ linkDensity.n = 0
                       /\ HasPeriod(t, sibling)
      ELSE FALSE

RECURSIVE CollectSiblings(_, _, _, _)
\* for (const sibling of siblings)
CollectSiblings(t, siblings, top, articleContent) ==
  IF siblings = <<>> THEN t
  ELSE LET s == Head(siblings)
       IN  IF AppendSibling(t, s, top)
             THEN LET r == IF t[s].tag \notin ALTER_TO_DIV_EXCEPTIONS
                             THEN SetNodeTag(t, s, "DIV") ELSE <<t, s>>
                  IN  CollectSiblings(AppendChild(r[1], articleContent, r[2]),
                                      Tail(siblings), top, articleContent)
             ELSE CollectSiblings(t, Tail(siblings), top, articleContent)

\* The sibling joining of one attempt: <<tree, articleContent>>.
JoinSiblings(t, top, needed) ==
  LET ac == FreshId(t)
      t1 == [t EXCEPT ![ac] = NewElement("DIV")]
      parent == t1[top].par
  IN  IF parent # Nil
        THEN <<CollectSiblings(t1, Children(t1, parent), top, ac), ac>>
        ELSE IF needed THEN <<t, top>> ELSE <<t1, ac>>

(***************************************************************************)
(* _prepArticle and the cleaners it calls.  The documents of the model     *)
(* carry no lazy-loading attribute, no base64 image, no "datatable" or     *)
(* "summary" attribute and no advertisement or loading word; the allowed   *)
(* video pattern matches an embed whose src is at www.youtube.com.         *)
(***************************************************************************)
\* Whether an embed element matches this._allowedVideoRegex.
IsVideoEmbed(t, n) == t[n].src.auth = "www.youtube.com"

\* The filter functions handed to _removeNodes: none (every node goes), the
\* one of _clean, the one of _cleanHeaders and the one _prepArticle uses for
\* the paragraphs.
FilterFn(f, t, n) ==
  CASE f.fn = "none" -> TRUE
    [] f.fn = "clean" ->
         ~ (f.tag \in {"OBJECT", "EMBED", "IFRAME"} /\ IsVideoEmbed(t, n))
    [] f.fn = "cleanHeaders" ->
         GetClassWeight(f.fl, t, n) < 0
           \/ (f.title # <<>> /\ HeaderDuplicatesTitle(t, n, f.title))
    [] f.fn = "emptyParagraph" ->
         GetAllNodesWithTag(t, n, {"IMG", "EMBED", "OBJECT", "IFRAME"}) = <<>>
           /\ GetInnerTextLength(t, n) = 0

\* _removeNodes(nodeList, filterFn): the list is walked backwards and a node
\* that still has a parent is removed when the filter holds for it.
\* filterFn is a record naming the filter function and the values it closes
\* over; FilterFn applies it to a node.
RECURSIVE RemoveNodesFrom(_, _, _, _)
RemoveNodesFrom(t, nodes, filterFn, i) ==
  IF i = 0 THEN t
  ELSE IF t[nodes[i]].par # Nil /\ FilterFn(filterFn, t, nodes[i])
         THEN RemoveNodesFrom(RemoveChild(t, nodes[i]), nodes, filterFn, i - 1)
         ELSE RemoveNodesFrom(t, nodes, filterFn, i - 1)

RemoveNodes(t, nodes, filterFn) == RemoveNodesFrom(t, nodes, filterFn, Len(nodes))

\* _cleanStyles(e): the style attribute goes, on e and on its descendants.
CleanStyles(t, e) ==
  LET es == {e} \cup SeqToSet(AllElements(t, e))
  IN  Tabulate([i \in NodeIds |->
                  IF i \in es /\ t[i].hid \in {"display:none", "visibility:hidden"}
                    THEN [t[i] EXCEPT !.hid = ""] ELSE t[i]])

\* _getRowAndColumnCount(table)
GetRowAndColumnCount(t, table) ==
  LET trs == GetAllNodesWithTag(t, table, {"TR"})
      cells(tr) == Len(SelectSeq(Children(t, tr), LAMBDA c : t[c].tag \in {"TD", "TH"}))
      RECURSIVE MaxCells(_)
      MaxCells(i) == IF i = 0 THEN 0 ELSE Max(cells(trs[i]), MaxCells(i - 1))
  IN  [rows |-> Len(trs), columns |-> MaxCells(Len(trs))]

\* The verdict of _markDataTables on one table.
IsDataTable(t, table) ==
  LET captions == GetAllNodesWithTag(t, table, {"CAPTION"})
      sizeInfo == GetRowAndColumnCount(t, table)
  IN  IF t[table].role \in {"presentation", "none"} THEN FALSE
      ELSE IF captions # <<>> /\ HasContent(t, captions[1]) THEN TRUE
      ELSE IF GetAllNodesWithTag(t, table, {"COL", "COLGROUP", "TFOOT", "THEAD", "TH"}) # <<>>
             THEN TRUE
      ELSE IF GetAllNodesWithTag(t, table, {"TABLE"}) # <<>> THEN FALSE
      ELSE IF sizeInfo.rows >= 10 \/ sizeInfo.columns > 4 THEN TRUE
      ELSE sizeInfo.rows * sizeInfo.columns > 10

\* _markDataTables(root)
MarkDataTables(t, root) ==
  LET tables == SeqToSet(GetAllNodesWithTag(t, root, {"TABLE"}))
  IN  Tabulate([i \in NodeIds |->
                  IF i \in tables THEN [t[i] EXCEPT !.dt = IsDataTable(t, i)] ELSE t[i]])

\* _fixLazyImages(root): an image without lazy-loading attributes and with a
\* real src is left as it is.
FixLazyImages(t, root) == t

\* _clean(e, tag)
Clean(t, e, tag) ==
  RemoveNodes(t, GetAllNodesWithTag(t, e, {tag}), [fn |-> "clean", tag |-> tag])

\* _isSingleImage(node)
RECURSIVE IsSingleImage(_, _)
IsSingleImage(t, n) ==
  IF n = Nil THEN FALSE
  ELSE IF t[n].tag = "IMG" THEN TRUE
  ELSE /\ Len(Children(t, n)) = 1
       /\ \A k \in SeqToSet(t[n].kids) : IsText(t, k) => t[k].len = 0
       /\ IsSingleImage(t, Children(t, n)[1])

\* The number of the nodes of a list that have one of the tags.
CountTags(t, inside, tags) == Len(SelectSeq(inside, LAMBDA k : t[k].tag \in tags))

\* The sum of the inner text lengths of the nodes of a list that have one of
\* the tags.
LengthOfTags(t, inside, tags) ==
  LET ks == SelectSeq(inside, LAMBDA k : t[k].tag \in tags)
  IN  SumSeq([i \in 1 .. Len(ks) |-> GetInnerTextLength(t, ks[i])])

\* Ten times linkLength: a hash link counts 0.3 of its text.
LinkLength10(t, links) ==
  SumSeq([i \in 1 .. Len(links) |->
            GetInnerTextLength(t, links[i])
              * (IF IsHashUrl(t[links[i]].href) THEN 3 ELSE 10)])

\* The measurements _cleanConditionally takes of a node, from the list of
\* the nodes inside it that it looks at.
CountsOf(t, inside) ==
  [p |-> CountTags(t, inside, {"P"}), img |-> CountTags(t, inside, {"IMG"}),
   li |-> CountTags(t, inside, {"LI"}), input |-> CountTags(t, inside, {"INPUT"}),
   headingTextLength |-> LengthOfTags(t, inside, {"H1", "H2", "H3", "H4", "H5", "H6"}),
   videoEmbed |->
     Len(SelectSeq(inside, LAMBDA k : t[k].tag \in {"OBJECT", "EMBED", "IFRAME"}
                                        /\ IsVideoEmbed(t, k))),
   otherEmbed |->
     Len(SelectSeq(inside, LAMBDA k : t[k].tag \in {"OBJECT", "EMBED", "IFRAME"}
                                        /\ ~ IsVideoEmbed(t, k))),
   linkLength10 |-> LinkLength10(t, SelectSeq(inside, LAMBDA k : t[k].tag = "A")),
   textDensityLength |->
     LengthOfTags(t, inside, {"SPAN", "LI", "TD", "P", "DIV", "BLOCKQUOTE", "A"}),
   \* textContentByTag is never filled: (textContentByTag.li || "").length
   liTextLength |-> 0]

CleanCounts(t, n) ==
  CountsOf(t, GetAllNodesWithTag(t, n,
                {"P", "IMG", "LI", "INPUT", "H1", "H2", "H3", "H4", "H5", "H6", "OBJECT",
                 "EMBED", "IFRAME", "SPAN", "TD", "DIV", "BLOCKQUOTE", "A"}))

\* ratio > num / den, the ratio of amount to contentLength being 0 for an
\* empty node.
Over(amount, contentLength, num, den) ==
  contentLength > 0 /\ amount * den > num * contentLength

Under(amount, contentLength, num, den) ==
  contentLength = 0 \/ amount * den < num * contentLength

\* shouldRemoveNode() of _cleanConditionally, for a node with fewer than ten
\* commas that is not kept for its video, from its measurements.
ShouldRemove(c, weight, contentLength, isList, isFigureAncestor) ==
  \/ ~ isFigureAncestor /\ c.img > 1 /\ (c.p = 0 \/ 2 * c.p < c.img)
  \/ ~ isList /\ c.li > 0 /\ c.p = 0 /\ Over(c.liTextLength, contentLength, 1, 2)
  \/ c.input > c.p \div 3
  \/ /\ contentLength < 25 /\ (c.img = 0 \/ c.img > 2) /\ ~ isFigureAncestor
     /\ ~ isList /\ Under(c.headingTextLength, contentLength, 9, 10)
     /\ Over(c.linkLength10, contentLength, 2, 1)
  \/ ~ isList /\ weight < 25 /\ Over(c.linkLength10, contentLength, 2, 1)
  \/ weight >= 25 /\ Over(c.linkLength10, contentLength, 5, 1)
  \/ (c.otherEmbed = 1 /\ contentLength < 75 /\ c.img = 0) \/ c.otherEmbed > 1
  \/ /\ c.img = 0 /\ c.videoEmbed = 0
     /\ Under(c.textDensityLength, contentLength, 1, 10)
     /\ contentLength < 100

\* The exception for a list whose items are single images.
ImageListException(t, n, c) ==
  /\ Len(Children(t, n)) = c.li /\ c.li # 0
  /\ \A k \in SeqToSet(Children(t, n)) : t[k].tag = "LI" /\ IsSingleImage(t, k)
  /\ c.img = c.li

\* The verdict on a node that is in no data table and no code block, from
\* its measurements c.
RemovesByCounts(fl, t, n, c) ==
  IF GetClassWeight(fl, t, n) < 0 THEN TRUE
  ELSE IF GetCharCount(t, n) >= 10 THEN FALSE
  ELSE IF c.videoEmbed > 0 /\ c.otherEmbed = 0 /\ c.img = 0 THEN FALSE
  ELSE /\ ShouldRemove(c, GetClassWeight(fl, t, n), GetInnerTextLength(t, n),
                       t[n].tag \in {"UL", "OL"}, HasAncestorTag(t, n, "FIGURE", 3, FALSE))
       /\ ~ (t[n].tag \in {"UL", "OL"} /\ ImageListException(t, n, c))

\* Whether _cleanConditionally removes the node n, in the tree as it is when
\* the loop reaches n.
CleanRemoves(fl, t, n) ==
  IF t[n].tag = "TABLE" /\ t[n].dt THEN FALSE
  ELSE IF HasAncestorTag(t, n, "TABLE", 0 - 1, TRUE) THEN FALSE
  ELSE IF HasAncestorTag(t, n, "CODE", 3, FALSE) THEN FALSE
  ELSE IF \E k \in SeqToSet(GetAllNodesWithTag(t, n, {"TABLE"})) : t[k].dt THEN FALSE
  ELSE RemovesByCounts(fl, t, n, CleanCounts(t, n))

\* _cleanConditionally(e, tag)
CleanConditionally(fl, t, e, tag) ==
  LET nodes == GetAllNodesWithTag(t, e, {tag})
      RECURSIVE Go(_, _)
      Go(tt, i) ==
        IF i > Len(nodes) THEN tt
        ELSE IF tt[nodes[i]].par # Nil /\ CleanRemoves(fl, tt, nodes[i])
               THEN Go(RemoveChild(tt, nodes[i]), i + 1)
               ELSE Go(tt, i + 1)
  IN  IF ~ FlagIsActive(fl, FLAG_CLEAN_CONDITIONALLY) THEN t ELSE Go(t, 1)

\* The filter _prepArticle gives _cleanMatchedNodes: a share element with
\* fewer characters than DEFAULT_CHAR_THRESHOLD.
IsSmallShareElement(t, n) ==
  Matches(shareElements, t, n) /\ TextContentLength(t, n) < DEFAULT_CHAR_THRESHOLD

RECURSIVE CleanMatchedFrom(_, _, _)
CleanMatchedFrom(t, node, endNode) ==
  IF node = Nil \/ node = endNode THEN t
  ELSE IF IsSmallShareElement(t, node)
         THEN CleanMatchedFrom(RemoveAndGetNext(t, node)[1],
                               RemoveAndGetNext(t, node)[2], endNode)
         ELSE CleanMatchedFrom(t, GetNextNode(t, node, FALSE), endNode)

\* _cleanMatchedNodes(e, filter)
CleanMatchedNodes(t, e) ==
  CleanMatchedFrom(t, GetNextNode(t, e, FALSE), GetNextNode(t, e, TRUE))

RECURSIVE CleanShareElements(_, _)
\* for (const topCandidate of topLevelChildren)
CleanShareElements(t, tops) ==
  IF tops = <<>> THEN t
  ELSE CleanShareElements(CleanMatchedNodes(t, Head(tops)), Tail(tops))

\* _cleanHeaders(e)
CleanHeaders(fl, title, t, e) ==
  RemoveNodes(t, GetAllNodesWithTag(t, e, {"H1", "H2"}),
              [fn |-> "cleanHeaders", fl |-> fl, title |-> title])

RECURSIVE ReplaceNodeTags(_, _, _)
\* _replaceNodeTags(nodeList, newTagName)
ReplaceNodeTags(t, nodes, tag) ==
  IF nodes = <<>> THEN t
  ELSE ReplaceNodeTags(SetNodeTag(t, Head(nodes), tag)[1], Tail(nodes), tag)

\* The paragraphs without media and without text are removed.
RemoveEmptyParagraphs(t, e) ==
  RemoveNodes(t, GetAllNodesWithTag(t, e, {"P"}), [fn |-> "emptyParagraph"])

RECURSIVE NextNodeFrom(_, _)
NextNodeFrom(t, next) ==
  IF next # Nil /\ IsText(t, next) /\ t[next].len = 0
    THEN NextNodeFrom(t, NextSibling(t, next)) ELSE next

\* _nextNode(node): the next sibling that is not a whitespace text.
NextNode(t, n) == NextNodeFrom(t, NextSibling(t, n))

RECURSIVE RemoveBrsBeforeP(_, _)
\* for (const br of brs): a br whose next node is a P is removed.
RemoveBrsBeforeP(t, brs) ==
  IF brs = <<>> THEN t
  ELSE LET next == NextNode(t, Head(brs))
       IN  IF next # Nil /\ t[next].tag = "P"
             THEN RemoveBrsBeforeP(RemoveChild(t, Head(brs)), Tail(brs))
             ELSE RemoveBrsBeforeP(t, Tail(brs))

RECURSIVE UnwrapSingleCellTables(_, _)
\* for (const table of tables): a table of one cell becomes a P or a DIV.
UnwrapSingleCellTables(t, tables) ==
  IF tables = <<>> THEN t
  ELSE LET table == Head(tables)
           tbody == IF HasSingleTagInsideElement(t, table, "TBODY")
                      THEN FirstElementChild(t, table) ELSE table
           row == FirstElementChild(t, tbody)
           cell == FirstElementChild(t, row)
           newTagName == IF \A k \in SeqToSet(t[cell].kids) : IsPhrasingContent(t, k)
                           THEN "P" ELSE "DIV"
           r == SetNodeTag(t, cell, newTagName)
       IN  IF HasSingleTagInsideElement(t, tbody, "TR")
                /\ HasSingleTagInsideElement(t, row, "TD")
             THEN UnwrapSingleCellTables(
                    IF r[1][table].par # Nil THEN ReplaceChild(r[1], r[2], table) ELSE r[1],
                    Tail(tables))
             ELSE UnwrapSingleCellTables(t, Tail(tables))

\* The statements of _prepArticle, in the order of the code: the function
\* called and the tag it is called for.
PrepStatements ==
  << <<"_cleanStyles", "">>, <<"_markDataTables", "">>, <<"_fixLazyImages", "">>,
     <<"_cleanConditionally", "FORM">>, <<"_cleanConditionally", "FIELDSET">>,
     <<"_clean", "OBJECT">>, <<"_clean", "EMBED">>, <<"_clean", "FOOTER">>,
     <<"_clean", "LINK">>, <<"_clean", "ASIDE">>,
     <<"_cleanMatchedNodes", "">>,
     <<"_clean", "IFRAME">>, <<"_clean", "INPUT">>, <<"_clean", "TEXTAREA">>,
     <<"_clean", "SELECT">>, <<"_clean", "BUTTON">>,
     <<"_cleanHeaders", "">>,
     <<"_cleanConditionally", "TABLE">>, <<"_cleanConditionally", "UL">>,
     <<"_cleanConditionally", "DIV">>,
     <<"_replaceNodeTags", "H1">>, <<"_removeNodes", "P">>,
     <<"br", "">>, <<"table", "">> >>

\* One statement of _prepArticle on the tree t.
PrepStatement(fl, title, t, ac, s) ==
  CASE s[1] = "_cleanStyles" -> CleanStyles(t, ac)
    [] s[1] = "_markDataTables" -> MarkDataTables(t, ac)
    [] s[1] = "_fixLazyImages" -> FixLazyImages(t, ac)
    [] s[1] = "_cleanConditionally" -> CleanConditionally(fl, t, ac, s[2])
    [] s[1] = "_clean" -> Clean(t, ac, s[2])
    [] s[1] = "_cleanMatchedNodes" -> CleanShareElements(t, Children(t, ac))
    [] s[1] = "_cleanHeaders" -> CleanHeaders(fl, title, t, ac)
    [] s[1] = "_replaceNodeTags" ->
         ReplaceNodeTags(t, GetAllNodesWithTag(t, ac, {s[2]}), "H2")
    [] s[1] = "_removeNodes" -> RemoveEmptyParagraphs(t, ac)
    [] s[1] = "br" -> RemoveBrsBeforeP(t, GetAllNodesWithTag(t, ac, {"BR"}))
    [] s[1] = "table" -> UnwrapSingleCellTables(t, GetAllNodesWithTag(t, ac, {"TABLE"}))

RECURSIVE PrepFrom(_, _, _, _, _)
\* The statements from the i-th on; each works on the tree the one before it
\* left.
PrepFrom(fl, title, t, ac, i) ==
  IF i > Len(PrepStatements) THEN t
  ELSE LET next == PrepStatement(fl, title, t, ac, PrepStatements[i])
       IN  IF DOMAIN next = NodeIds THEN PrepFrom(fl, title, next, ac, i + 1) ELSE next

\* _prepArticle(articleContent)
PrepArticle(fl, title, t, ac) == PrepFrom(fl, title, t, ac, 1)

(***************************************************************************)
(* Metadata.  The head of a document is a record: title is document.title, *)
(* lang the lang attribute of the root element, metas the META elements    *)
(* in document order, each [attr, name, content] for its property or name  *)
(* attribute, and scripts the JSON-LD script elements in document order.   *)
(* An attribute name and a key of the values table are sequences of the    *)
(* pieces of the name with its "." and ":" characters as pieces of their   *)
(* own: "og:title" is <<"og", ":", "title">>.                              *)
(***************************************************************************)
MetaWords == {"author", "creator", "description", "published_time", "title", "site_name"}
NameWords == {"author", "creator", "pub-date", "description", "title", "site_name"}

\* propertyPattern matches the property attribute.
PropertyMatches(name) ==
  /\ Len(name) = 3
  /\ name[1] \in {"og", "twitter", "article", "dc", "dcterm"}
  /\ name[2] = ":"
  /\ name[3] \in MetaWords

\* namePattern matches the name attribute: an optional prefix and one of
\* ".", ":" or "-", then the word.
NameMatches(name) ==
  \/ Len(name) = 1 /\ name[1] \in NameWords
  \/ Len(name) = 1 /\ name[1] \in {"parsely-author", "parsely-pub-date", "parsely-title",
                                   "parsely-description", "dc-title", "og-title"}
  \/ /\ Len(name) = 3
     /\ name[1] \in {"dc", "dcterm", "og", "twitter", "parsely"}
     /\ name[2] \in {".", ":"}
     /\ name[3] \in NameWords

\* The key a matching name attribute is stored under: dots become colons and
\* a name without a colon gets the prefix "name:".
NormalizeName(name) ==
  LET colons == [i \in 1 .. Len(name) |-> IF name[i] = "." THEN ":" ELSE name[i]]
  IN  IF ":" \in SeqToSet(colons) THEN colons ELSE <<"name", ":">> \o colons

RECURSIVE MetaValues(_, _)
\* The values table of _getArticleMetadata after the loop over the META
\* elements, as the list of its assignments, the latest first.
MetaValues(metas, values) ==
  IF metas = <<>> THEN values
  ELSE LET m == Head(metas)
       IN  IF m.content = <<>> THEN MetaValues(Tail(metas), values)
           ELSE IF m.attr = "property" /\ PropertyMatches(m.name)
                  THEN MetaValues(Tail(metas), <<[key |-> m.name, value |-> m.content]>> \o values)
           ELSE IF m.attr = "name" /\ NameMatches(m.name)
                  THEN MetaValues(Tail(metas),
                         <<[key |-> NormalizeName(m.name), value |-> m.content]>> \o values)
           ELSE MetaValues(Tail(metas), values)

\* values[key], the empty string when the key was never assigned.
ValueOf(values, key) ==
  LET hits == SelectSeq(values, LAMBDA v : v.key = key)
  IN  IF hits = <<>> THEN <<>> ELSE hits[1].value

RECURSIVE FirstOf(_)
\* a || b || c ...
FirstOf(alternatives) ==
  IF alternatives = <<>> THEN <<>>
  ELSE IF Head(alternatives) # <<>> THEN Head(alternatives)
  ELSE FirstOf(Tail(alternatives))

\* The segment of a title before its first separator and the rest after it.
FirstSeparator(s) ==
  LET at == {i \in 1 .. Len(s) : s[i] \in Separators}
  IN  IF at = {} THEN 0 ELSE CHOOSE i \in at : \A j \in at : i <= j
LastSeparator(s) ==
  LET at == {i \in 1 .. Len(s) : s[i] \in Separators}
  IN  IF at = {} THEN 0 ELSE CHOOSE i \in at : \A j \in at : i >= j

\* _getArticleTitle(), for a document title that uses spaced separators or
\* colons but not both; t is the document tree and root its body.  The
\* operators below are its steps, each taking curTitle as the step before
\* left it.

\* A title longer than 150 or shorter than 15 characters gives way to the
\* text of the only H1, if that is shorter and longer than 10 characters.
TitleFromHeading(curTitle, t, root) ==
  LET hOnes == GetAllNodesWithTag(t, root, {"H1"})
  IN  IF /\ curTitle # <<>>
         /\ (StrLen(curTitle) > 150 \/ StrLen(curTitle) < 15)
         /\ Len(hOnes) = 1
        THEN LET h1Length == GetInnerTextLength(t, hOnes[1])
             IN  IF h1Length > 0 /\ h1Length < StrLen(curTitle) /\ h1Length > 10
                   THEN Str(TextValue(t, hOnes[1])) ELSE curTitle
        ELSE curTitle

\* possibleTitles after the sort, the longest first.
PossibleTitles(first, last) ==
  LET possible == (IF StrLen(first) > 3 THEN <<first>> ELSE <<>>)
                    \o (IF StrLen(last) > 3 THEN <<last>> ELSE <<>>)
  IN  IF Len(possible) = 2 /\ StrLen(last) > StrLen(first) THEN <<last, first>> ELSE possible

\* The branch for a title with a spaced separator.
TitleBySeparator(curTitle, origTitle) ==
  LET possibleTitles ==
        PossibleTitles(SubSeq(curTitle, 1, FirstSeparator(curTitle) - 1),
                       SubSeq(curTitle, LastSeparator(curTitle) + 1, Len(curTitle)))
      longest == IF possibleTitles # <<>> THEN possibleTitles[1] ELSE curTitle
  IN  IF WordCount(longest) < 3
        THEN SubSeq(origTitle, FirstSeparator(origTitle) + 1, Len(origTitle))
        ELSE longest

\* The branch for a title with a colon.
TitleByColon(curTitle, origTitle, t, root) ==
  LET hTags == GetAllNodesWithTag(t, root, {"H1", "H2"})
      firstColonIndex == FirstSeparator(curTitle)
      potentialTitle == SubSeq(curTitle, firstColonIndex + 1, Len(curTitle))
      titleAfterLastColon == SubSeq(curTitle, LastSeparator(curTitle) + 1, Len(curTitle))
  IN  IF /\ potentialTitle # <<>>
         /\ \E i \in 1 .. Len(hTags) : Str(TextValue(t, hTags[i])) = potentialTitle
        THEN potentialTitle
      ELSE IF WordCount(titleAfterLastColon) >= 3 THEN titleAfterLastColon
      ELSE IF firstColonIndex > 1
                /\ WordCount(SubSeq(curTitle, 1, firstColonIndex - 1)) <= 5
             THEN potentialTitle
      ELSE origTitle

\* The split of a title of more than four words.
TitleSplit(curTitle, origTitle, t, root) ==
  IF curTitle # <<>> /\ WordCount(curTitle) > 4
    THEN IF \E i \in 1 .. Len(curTitle) : curTitle[i] \in SpacedSeparators
           THEN TitleBySeparator(curTitle, origTitle)
         ELSE IF \E i \in 1 .. Len(curTitle) : curTitle[i] = ":"
           THEN TitleByColon(curTitle, origTitle, t, root)
         ELSE curTitle
    ELSE curTitle

\* The final check: a title cut to four words or fewer and by more than two
\* words is given up for the original one.
TitleRevert(curTitle, origTitle) ==
  IF /\ WordCount(curTitle) <= 4
     /\ WordCount(curTitle) < WordCount(Words(origTitle)) - 2
     /\ WordCount(origTitle) > 4
    THEN origTitle ELSE curTitle

\* A title still equal to the original one, which has a separator, becomes
\* its first part if that has three words or more.
TitleFirstPart(curTitle, origTitle) ==
  LET firstPart == SubSeq(origTitle, 1, FirstSeparator(origTitle) - 1)
  IN  IF /\ curTitle = origTitle
         /\ FirstSeparator(origTitle) # 0
         /\ WordCount(firstPart) >= 3
         /\ WordCount(firstPart) < WordCount(origTitle)
        THEN firstPart ELSE curTitle

GetArticleTitle(docTitle, t, root) ==
  LET curTitle ==
        TitleFirstPart(
          TitleRevert(TitleSplit(TitleFromHeading(docTitle, t, root), docTitle, t, root),
                      docTitle),
          docTitle)
  IN  IF curTitle # <<>> THEN curTitle ELSE docTitle

\* The metadata object of _getJSONLD before any script is read.
NoMetadata ==
  [title |-> <<>>, byline |-> <<>>, excerpt |-> <<>>, siteName |-> <<>>,
   datePublished |-> <<>>, publishedTime |-> <<>>]

\* The properties _getJSONLD reads from one parsed Article object.
ReadArticle(block, metadata, htmlTitle) ==
  LET nameSimilarity == TextSimilarity(block.name, htmlTitle)
      headlineSimilarity == TextSimilarity(block.headline, htmlTitle)
  IN  [metadata EXCEPT
         !.title = IF block.name # <<>> /\ block.headline # <<>> /\ block.name # block.headline
                     THEN (IF RLt(nameSimilarity, headlineSimilarity)
                                /\ RLt(Rat(3, 4), headlineSimilarity)
                             THEN block.headline ELSE block.name)
                     ELSE FirstOf(<<block.name, block.headline>>),
         !.byline = IF block.author # <<>> THEN block.author ELSE @,
         !.excerpt = block.description,
         !.siteName = IF block.publisher # <<>> THEN block.publisher ELSE @,
         !.datePublished = FirstOf(<<block.datePublished, block.dateCreated>>)]

\* A catch around the whole loop: no script is visited after the error.
StopAfterParseError(scripts) == <<>>

\* The scripts the loop of _getJSONLD still visits after JSON.parse threw on
\* the first of them: the catch is inside the loop body.
AfterParseError(scripts) == Tail(scripts)

RECURSIVE ReadScripts(_, _, _)
\* The loop of _getJSONLD over the script elements: a script is
\* [json, type, name, headline, author, description, publisher,
\* datePublished, dateCreated], json being "invalid" for a text JSON.parse
\* throws on, "empty" for no text and "object" for an object of the given
\* @type.  The result is [metadata, threw].
ReadScripts(scripts, metadata, htmlTitle) ==
  IF scripts = <<>> THEN [metadata |-> metadata, threw |-> FALSE]
  ELSE LET s == Head(scripts)
           read == ReadArticle(s, metadata, htmlTitle)
       IN  IF s.json = "empty" THEN ReadScripts(Tail(scripts), metadata, htmlTitle)
           \* JSON.parse throws inside the try: the catch logs and the loop goes on
           ELSE IF s.json = "invalid"
                  THEN ReadScripts(AfterParseError(scripts), metadata, htmlTitle)
           ELSE IF s.type # "Article" THEN ReadScripts(Tail(scripts), metadata, htmlTitle)
           ELSE IF read.title # <<>> \/ read.byline # <<>> \/ read.excerpt # <<>>
                  THEN [metadata |-> read, threw |-> FALSE]
           ELSE ReadScripts(Tail(scripts), read, htmlTitle)

\* A scan for JSON-LD that runs after _removeScripts: no script is left.
ScanAfterRemoval(head, t, root) ==
  ReadScripts(<<>>, NoMetadata, GetArticleTitle(head.title, t, root))

\* _getJSONLD()
GetJSONLD(head, t, root) ==
  ReadScripts(head.scripts, NoMetadata, GetArticleTitle(head.title, t, root))

K(prefix, word) == <<prefix, ":", word>>

\* _getArticleMetadata(jsonldMetadata)
GetArticleMetadata(jsonld, head, t, root) ==
  LET values == MetaValues(head.metas, <<>>)
      v(key) == ValueOf(values, key)
      title == FirstOf(<<jsonld.title, v(K("og", "title")), v(K("twitter", "title")),
                         v(K("dcterm", "title")), v(K("name", "title")),
                         v(<<"parsely-title">>)>>)
  IN  [jsonld EXCEPT
         !.title = IF title # <<>> THEN title ELSE GetArticleTitle(head.title, t, root),
         !.byline = FirstOf(<<@, v(K("article", "author")), v(K("dcterm", "creator")),
                              v(K("dc", "creator")), v(K("name", "author")),
                              v(<<"parsely-author">>)>>),
         !.excerpt = FirstOf(<<@, v(K("og", "description")), v(K("twitter", "description")),
                               v(K("dcterm", "description")), v(K("name", "description"))>>),
         !.siteName = FirstOf(<<@, v(K("og", "site_name"))>>),
         !.publishedTime = FirstOf(<<@, v(K("article", "published_time")),
                                     v(K("dcterm", "published")), v(K("name", "pub-date")),
                                     v(<<"parsely-pub-date">>)>>)]

(***************************************************************************)
(* _prepDocument: runs of BR elements become paragraphs.                   *)
(***************************************************************************)
RECURSIVE SkipBrChain(_, _, _)
\* The loop over the nodes after a BR: whitespace is skipped and every
\* further BR is removed; <<tree, replaced>>.
SkipBrChain(t, next, replaced) ==
  IF next # Nil /\ IsText(t, next) /\ t[next].len = 0
    THEN SkipBrChain(t, NextSibling(t, next), replaced)
  ELSE IF next # Nil /\ t[next].tag = "BR"
    THEN SkipBrChain(RemoveChild(t, next), NextSibling(t, next), TRUE)
  ELSE <<t, replaced>>

RECURSIVE FillParagraph(_, _, _)
\* The phrasing content that follows the new P moves into it, up to the next
\* pair of BR elements.
FillParagraph(t, p, next) ==
  IF next = Nil THEN t
  ELSE IF t[next].tag = "BR" /\ NextSibling(t, next) # Nil
            /\ NextNode(t, NextSibling(t, next)) # Nil
            /\ t[NextNode(t, NextSibling(t, next))].tag = "BR"
         THEN t
  ELSE IF ~ IsPhrasingContent(t, next) THEN t
  ELSE FillParagraph(AppendChild(t, p, next), p, NextSibling(t, next))

RECURSIVE TrimTrailingWhitespace(_, _)
TrimTrailingWhitespace(t, p) ==
  LET ks == t[p].kids
  IN  IF ks # <<>> /\ IsWhitespace(t, ks[Len(ks)])
        THEN TrimTrailingWhitespace(RemoveChild(t, ks[Len(ks)]), p) ELSE t

RECURSIVE ReplaceBrsFrom(_, _)
\* for (const br of brs)
ReplaceBrsFrom(t, brs) ==
  IF brs = <<>> THEN t
  ELSE LET br == Head(brs)
           chain == SkipBrChain(t, NextSibling(t, br), FALSE)
           t1 == chain[1]
           p == FreshId(t1)
           t2 == ReplaceChild([t1 EXCEPT ![p] = NewElement("P")], p, br)
           t3 == TrimTrailingWhitespace(FillParagraph(t2, p, NextSibling(t2, p)), p)
           t4 == IF t3[p].par # Nil /\ t3[t3[p].par].tag = "P"
                   THEN SetNodeTag(t3, t3[p].par, "DIV")[1] ELSE t3
       IN  IF t[br].par = Nil THEN ReplaceBrsFrom(t, Tail(brs))
           ELSE IF chain[2] THEN ReplaceBrsFrom(t4, Tail(brs))
           ELSE ReplaceBrsFrom(t1, Tail(brs))

\* _replaceBrs(elem)
ReplaceBrs(t, elem) == ReplaceBrsFrom(t, GetAllNodesWithTag(t, elem, {"BR"}))

\* _prepDocument(), on the body: the STYLE elements of the head have no part
\* in the model.
PrepDocument(t, root) ==
  LET t1 == ReplaceBrs(t, root)
  IN  ReplaceNodeTags(t1, GetAllNodesWithTag(t1, root, {"FONT"}), "SPAN")

\* _removeScripts(doc), on the body.
RemoveScripts(t, root) ==
  RemoveNodes(t, GetAllNodesWithTag(t, root, {"SCRIPT", "NOSCRIPT"}), [fn |-> "none"])

\* node.cloneNode(true): a copy of the subtree, without the properties the
\* program added to its nodes.
CloneNode(t, root) ==
  LET c == Collect(t, {root})
  IN  Tabulate([i \in NodeIds |->
                  IF c[i].tag = "" THEN c[i]
                  ELSE [c[i] EXCEPT !.sc = NoScore, !.dt = FALSE,
                                    !.par = IF i = root THEN Nil ELSE @]])

(***************************************************************************)
(* _postProcessContent: _fixRelativeUris, _simplifyNestedElements,         *)
(* _cleanClasses.                                                          *)
(***************************************************************************)
\* The hosts the URL parser rejects.
BadHosts == {"exa^mple.test"}

\* Whether new URL(uri) succeeds for a string with a scheme.
Parses(uri) == uri.scheme # "" /\ uri.auth \notin BadHosts

\* Whether the base is hierarchical: relative references resolve against it.
Hierarchical(base) == base.scheme \in {"http:", "https:"}

\* Whether new URL(uri, baseURI) succeeds.
Resolves(uri, base) ==
  IF uri.scheme # "" THEN Parses(uri)
  ELSE Parses(base) /\ Hierarchical(base) /\ uri.auth \notin BadHosts

\* new URL(uri, baseURI).href
Href(uri, base) ==
  IF uri.scheme # "" THEN uri
  ELSE IF uri.auth # "" THEN [uri EXCEPT !.scheme = base.scheme]
  ELSE IF uri.path # <<>> /\ uri.path[1] \in {"#frag", "#"}
         THEN [base EXCEPT !.path = @ \o uri.path]
  ELSE IF uri.path # <<>> /\ uri.path[1] = "/"
         THEN [base EXCEPT !.path = uri.path]
  ELSE [base EXCEPT !.path = SubSeq(@, 1, Len(@) - 1) \o uri.path]

\* toAbsoluteURI(uri): [value, threw].  The protocol of the base is read
\* before the try statement.
ToAbsoluteURI(uri, baseURI, documentURI) ==
  LET protocolRelative == uri.scheme = "" /\ uri.auth # ""
      uri1 == IF protocolRelative THEN [uri EXCEPT !.scheme = baseURI.scheme] ELSE uri
  IN  IF uri = NoUri THEN [value |-> uri, threw |-> FALSE]
      ELSE IF baseURI = documentURI /\ uri.scheme = "" /\ uri.auth = ""
                /\ uri.path[1] \in {"#frag", "#"}
             THEN [value |-> uri, threw |-> FALSE]
      ELSE IF protocolRelative /\ ~ Parses(baseURI) THEN [value |-> uri, threw |-> TRUE]
      ELSE IF Resolves(uri1, baseURI) THEN [value |-> Href(uri1, baseURI), threw |-> FALSE]
      ELSE [value |-> uri1, threw |-> FALSE]

RECURSIVE FixLinks(_, _, _, _)
\* for (const link of links)
FixLinks(t, links, baseURI, documentURI) ==
  IF links = <<>> THEN [t |-> t, threw |-> FALSE]
  ELSE LET link == Head(links)
           href == t[link].href
           abs == ToAbsoluteURI(href, baseURI, documentURI)
           new == FreshId(t)
           text == ReplaceChild([t EXCEPT ![new] =
                                   [t[t[link].kids[1]] EXCEPT !.par = Nil]], new, link)
           span == ReplaceChild(
                     MoveChildren([t EXCEPT ![new] = NewElement("SPAN")], link, new),
                     new, link)
       IN  IF href = NoUri THEN FixLinks(t, Tail(links), baseURI, documentURI)
           ELSE IF href.scheme = "javascript:"
             THEN IF Len(t[link].kids) = 1 /\ IsText(t, t[link].kids[1])
                    THEN FixLinks(text, Tail(links), baseURI, documentURI)
                    ELSE FixLinks(span, Tail(links), baseURI, documentURI)
           ELSE IF abs.threw THEN [t |-> t, threw |-> TRUE]
           ELSE FixLinks([t EXCEPT ![link].href = abs.value], Tail(links),
                         baseURI, documentURI)

RECURSIVE FixMedia(_, _, _, _)
\* for (const medium of media)
FixMedia(t, media, baseURI, documentURI) ==
  IF media = <<>> THEN [t |-> t, threw |-> FALSE]
  ELSE LET m == Head(media)
           abs(u) == ToAbsoluteURI(u, baseURI, documentURI)
           set == t[m].srcset
       IN  IF \/ abs(t[m].src).threw
              \/ abs(t[m].poster).threw
              \/ \E i \in 1 .. Len(set) : abs(set[i]).threw
             THEN [t |-> t, threw |-> TRUE]
             ELSE FixMedia([t EXCEPT ![m].src = abs(@).value,
                                     ![m].poster = abs(@).value,
                                     ![m].srcset = [i \in 1 .. Len(@) |-> abs(@[i]).value]],
                           Tail(media), baseURI, documentURI)

\* _fixRelativeUris(articleContent): [t, threw]
FixRelativeUris(t, ac, baseURI, documentURI) ==
  LET links == FixLinks(t, GetAllNodesWithTag(t, ac, {"A"}), baseURI, documentURI)
  IN  IF links.threw THEN links
      ELSE FixMedia(links.t,
                    GetAllNodesWithTag(links.t, ac,
                      {"IMG", "PICTURE", "FIGURE", "VIDEO", "AUDIO", "SOURCE"}),
                    baseURI, documentURI)

\* The attributes of node are set on child.
HoistAttributes(t, node, child) ==
  LET keep(a, none) == IF t[node][a] # none THEN t[node][a] ELSE t[child][a]
  IN  [t EXCEPT ![child] =
         [@ EXCEPT !.cls = keep("cls", ""), !.id = keep("id", ""), !.hid = keep("hid", ""),
                   !.amodal = keep("amodal", FALSE), !.role = keep("role", ""),
                   !.rel = keep("rel", ""), !.iprop = keep("iprop", ""),
                   !.dir = keep("dir", "")]]

RECURSIVE SimplifyFrom(_, _)
\* The while (node) loop of _simplifyNestedElements.
SimplifyFrom(t, node) ==
  IF node = Nil THEN t
  ELSE IF t[node].par # Nil /\ t[node].tag \in {"DIV", "SECTION"}
            /\ t[node].id # "readability-page-1"
         THEN IF IsElementWithoutContent(t, node)
                THEN SimplifyFrom(RemoveAndGetNext(t, node)[1], RemoveAndGetNext(t, node)[2])
              ELSE IF HasSingleTagInsideElement(t, node, "DIV")
                        \/ HasSingleTagInsideElement(t, node, "SECTION")
                THEN LET child == Children(t, node)[1]
                     IN  SimplifyFrom(ReplaceChild(HoistAttributes(t, node, child), child, node),
                                      child)
              ELSE SimplifyFrom(t, GetNextNode(t, node, FALSE))
  ELSE SimplifyFrom(t, GetNextNode(t, node, FALSE))

\* _simplifyNestedElements(articleContent)
SimplifyNestedElements(t, ac) == SimplifyFrom(t, ac)

CLASSES_TO_PRESERVE == {"page"}

\* A class cleaning that leaves every class attribute as it is.
KeepAllClasses(t, node, classesToPreserve) == t

\* _cleanClasses(node), classesToPreserve the option: this._classesToPreserve
\* is CLASSES_TO_PRESERVE and the names of the option.
CleanClasses(t, node, classesToPreserve) ==
  LET es == {node} \cup SeqToSet(AllElements(t, node))
  IN  Tabulate([i \in NodeIds |->
                  IF i \in es /\ t[i].cls \notin CLASSES_TO_PRESERVE \cup classesToPreserve
                    THEN [t[i] EXCEPT !.cls = ""] ELSE t[i]])

\* _postProcessContent(articleContent): [t, threw].
PostProcessContent(t, ac, baseURI, documentURI, keepClasses, classesToPreserve) ==
  LET fixed == FixRelativeUris(t, ac, baseURI, documentURI)
  IN  IF fixed.threw THEN fixed
      ELSE [t |-> IF keepClasses THEN SimplifyNestedElements(fixed.t, ac)
                  ELSE CleanClasses(SimplifyNestedElements(fixed.t, ac), ac,
                                    classesToPreserve),
            threw |-> FALSE]

(***************************************************************************)
(* _finalizeArticle                                                        *)
(***************************************************************************)
\* The first dir attribute among the nodes, "" when none has one.
FirstDir(t, nodes) ==
  LET with == SelectSeq(nodes, LAMBDA k : k # Nil /\ t[k].dir # "")
  IN  IF with = <<>> THEN "" ELSE t[with[1]].dir

\* _finalizeArticle(articleContent, topCandidate, neededToCreateTopCandidate):
\* [t, dir]; top is Nil for no top candidate, bodyDir and rootDir are the dir
\* attributes of the body and of the root element of the document, dir the
\* value of this._articleDir before the call.
FinalizeArticle(t, ac, top, needed, bodyDir, rootDir, dir) ==
  LET div == FreshId(t)
      t1 == IF needed THEN [t EXCEPT ![ac].id = "readability-page-1", ![ac].cls = "page"]
            ELSE AppendChild(
                   MoveChildren([t EXCEPT ![div] = [NewElement("DIV") EXCEPT
                                                      !.id = "readability-page-1",
                                                      !.cls = "page"]], ac, div),
                   ac, div)
      finalContainer == IF needed THEN ac ELSE div
      fromTop == IF top # Nil /\ t1[top].par # Nil
                   THEN FirstDir(t1, <<t1[top].par, top>>
                                       \o GetNodeAncestors(t1, t1[top].par, 0))
                   ELSE ""
      fromRest == FirstOf(<<Str(t1[finalContainer].dir), Str(bodyDir), Str(rootDir)>>)
  IN  [t |-> t1,
       dir |-> IF fromTop # "" THEN fromTop
               ELSE IF fromRest # <<>> THEN fromRest[1] ELSE dir]

(***************************************************************************)
(* The documents of the model.  A tree is written as the list of its nodes *)
(* in document order, each with the index p of its parent in the list (0   *)
(* for the root) and the attributes it sets.                               *)
(***************************************************************************)
MkNode(spec) ==
  [x \in DOMAIN Free |-> IF x \in DOMAIN spec THEN spec[x] ELSE Free[x]]

MkTree(specs) ==
  [i \in NodeIds |->
     IF i + 1 > Len(specs) THEN Free
     ELSE [MkNode(specs[i + 1]) EXCEPT
             !.par = specs[i + 1].p - 1,
             !.kids = LET js == SelectSeq([j \in 1 .. Len(specs) |-> j],
                                          LAMBDA j : specs[j].p = i + 1)
                      IN  [k \in 1 .. Len(js) |-> js[k] - 1]]]

\* The body element of every document tree.
Root == 0

Text(parent, len, txt) ==
  [p |-> parent, tag |-> "#text", len |-> len, txt |-> txt, com |-> len \div 100,
   dot |-> len > 0]

\* The lengths of the main paragraph of a document.
TextLengths == {0, 50, 300, 600}
WrapperTags == {"DIV", "SECTION", "ARTICLE"}
WrapperClasses == {"", "sidebar", "content", "promo"}
Extras == {"none", "heading", "byline", "links", "hidden", "second", "br-share", "font", "link",
           "code"}

DocumentURI == [scheme |-> "https:", auth |-> "site.test", path |-> <<"/dir/", "page.html">>]

\* The nodes that come before the main paragraph in the wrapper; at is the
\* index of the first of them.
Before(extra, at) ==
  CASE extra = "heading" ->
         <<[p |-> 2, tag |-> "H1"], Text(at, 20, "Default Page Title Text")>>
    [] extra = "byline" ->
         <<[p |-> 2, tag |-> "SPAN", cls |-> "byline"], Text(at, 10, "Jane Doe")>>
    [] extra = "font" ->
         <<[p |-> 2, tag |-> "FONT"], Text(at, 10, "Styled text")>>
    [] extra = "link" ->
         <<[p |-> 2, tag |-> "A",
            href |-> [scheme |-> "", auth |-> "", path |-> <<"/", "more.html">>]],
           Text(at, 40, "More stories")>>
    [] extra = "code" ->
         <<[p |-> 2, tag |-> "CODE"], [p |-> at, tag |-> "SPAN", cls |-> "sidebar"],
           Text(at + 1, 10, "Sample")>>
    [] extra = "hidden" ->
         <<[p |-> 2, tag |-> "P", hid |-> "display:none"], Text(at, 600, "Hidden text")>>
    [] extra = "br-share" ->
         <<[p |-> 2, tag |-> "BR"],
           [p |-> 2, tag |-> "SPAN", cls |-> "share"], Text(at + 1, 5, "Share"),
           [p |-> 2, tag |-> "BR"]>>
    [] OTHER -> <<>>

\* The nodes that come after the wrapper in the body.
After(extra, at) ==
  CASE extra = "links" ->
         <<[p |-> 1, tag |-> "UL", cls |-> "menu"], [p |-> at, tag |-> "LI"],
           [p |-> at + 1, tag |-> "A",
            href |-> [scheme |-> "", auth |-> "", path |-> <<"/", "more.html">>]],
           Text(at + 2, 40, "More stories")>>
    [] extra = "second" ->
         <<[p |-> 1, tag |-> "DIV", cls |-> "promo"], [p |-> at, tag |-> "P"],
           Text(at + 1, 300, "Second text"),
           [p |-> at, tag |-> "P"], Text(at + 3, 300, "Third text")>>
    [] OTHER -> <<>>

\* BODY > wrapper > (extra nodes, P > text of len characters), extra nodes.
Body(wtag, wcls, len, extra) ==
  LET a == <<[p |-> 0, tag |-> "BODY"], [p |-> 1, tag |-> wtag, cls |-> wcls]>>
      b == a \o Before(extra, Len(a) + 1)
      c == b \o <<[p |-> 2, tag |-> "P"], Text(Len(b) + 1, len, "Main text")>>
  IN  MkTree(c \o After(extra, Len(c) + 1))

Uri(scheme, auth, path) == [scheme |-> scheme, auth |-> auth, path |-> path]

\* The attribute values of the links and media of the model: none, a
\* relative path, a path from the root, a fragment, absolute values with a
\* host the URL parser accepts or rejects, protocol-relative values with such
\* hosts, and a javascript: value.
Uris ==
  { NoUri, Uri("", "", <<"more.html">>), Uri("", "", <<"/", "top.html">>),
    Uri("", "", <<"#frag">>),
    Uri("https:", "good.test", <<"/", "x">>), Uri("https:", "exa^mple.test", <<"/", "x">>),
    Uri("", "cdn.test", <<"/", "x">>), Uri("", "exa^mple.test", <<"/", "x">>),
    Uri("javascript:", "", <<"void(0)">>) }

\* The base URIs of the model: the document's own, and that of a BASE element.
BaseURIs == {DocumentURI, Uri("http:", "base.test", <<"/", "b/", "index.html">>)}

\* BODY > SECTION > (A > text, IMG, VIDEO, P > text of 600 characters): the
\* link has the href u, the image the src and the srcset v, the video the
\* poster u.
BodyWithUris(u, v) ==
  MkTree(<<[p |-> 0, tag |-> "BODY"], [p |-> 1, tag |-> "SECTION"],
           [p |-> 2, tag |-> "A", href |-> u], Text(3, 10, "Link text"),
           [p |-> 2, tag |-> "IMG", src |-> v,
            srcset |-> IF v = NoUri THEN <<>> ELSE <<v>>],
           [p |-> 2, tag |-> "VIDEO", poster |-> IF u.scheme = "javascript:" THEN NoUri ELSE u],
           [p |-> 2, tag |-> "P"], Text(7, 600, "Main text")>>)

\* BODY > SECTION > (DIV > (P > text of 600 characters, P > text of 50
\* characters), P > text of 50 characters), with the dir attributes b, d and
\* s on the BODY, the SECTION and the DIV.
BodyWithDirs(b, d, s) ==
  MkTree(<<[p |-> 0, tag |-> "BODY", dir |-> b], [p |-> 1, tag |-> "SECTION", dir |-> d],
           [p |-> 2, tag |-> "DIV", dir |-> s],
           [p |-> 3, tag |-> "P"], Text(4, 600, "Main text"),
           [p |-> 3, tag |-> "P"], Text(6, 50, "Second text"),
           [p |-> 2, tag |-> "P"], Text(8, 50, "Third text")>>)

\* BODY > DIV > SECTION > (P > text of 600 characters, P > text of 50
\* characters), with the class attributes o and i on the DIV and the SECTION.
BodyWithClasses(o, i) ==
  MkTree(<<[p |-> 0, tag |-> "BODY"], [p |-> 1, tag |-> "DIV", cls |-> o],
           [p |-> 2, tag |-> "SECTION", cls |-> i],
           [p |-> 3, tag |-> "P"], Text(4, 600, "Main text"),
           [p |-> 3, tag |-> "P"], Text(6, 50, "Second text")>>)

\* BODY > SECTION > (CODE > SPAN > ... > SPAN > UL > text of 10 characters,
\* P > text of 600 characters), with k SPAN elements between the CODE and the
\* UL and the class attribute c on the UL.
BodyWithCode(k, c) ==
  MkTree(<<[p |-> 0, tag |-> "BODY"], [p |-> 1, tag |-> "SECTION"], [p |-> 2, tag |-> "CODE"]>>
         \o [i \in 1 .. k |-> [p |-> 2 + i, tag |-> "SPAN"]]
         \o <<[p |-> 3 + k, tag |-> "UL", cls |-> c], Text(4 + k, 10, "Sample"),
              [p |-> 2, tag |-> "P"], Text(6 + k, 600, "Main text")>>)

\* BODY > SECTION > (tag > UL > LI > text of len characters, P > text of 600
\* characters).
BodyWithList(tag, len) ==
  MkTree(<<[p |-> 0, tag |-> "BODY"], [p |-> 1, tag |-> "SECTION"], [p |-> 2, tag |-> tag],
           [p |-> 3, tag |-> "UL"], [p |-> 4, tag |-> "LI"], Text(5, len, "List text"),
           [p |-> 2, tag |-> "P"], Text(7, 600, "Main text")>>)

\* BODY > (P > text of len characters, BLOCKQUOTE > (P > text of 300
\* characters, P > text of 300 characters), P > text of 300 characters).
BodyWithQuote(len) ==
  MkTree(<<[p |-> 0, tag |-> "BODY"],
           [p |-> 1, tag |-> "P"], Text(2, len, "First text"),
           [p |-> 1, tag |-> "BLOCKQUOTE"],
           [p |-> 4, tag |-> "P"], Text(5, 300, "Main text"),
           [p |-> 4, tag |-> "P"], Text(7, 300, "Second text"),
           [p |-> 1, tag |-> "P"], Text(9, 300, "Third text")>>)

\* BODY > ARTICLE > (ARTICLE > ARTICLE > (P > text of 600 characters, P >
\* text of 300 characters), P > text of len characters).
BodyNested(len) ==
  MkTree(<<[p |-> 0, tag |-> "BODY"], [p |-> 1, tag |-> "ARTICLE"],
           [p |-> 2, tag |-> "ARTICLE"], [p |-> 3, tag |-> "ARTICLE"],
           [p |-> 4, tag |-> "P"], Text(5, 600, "Main text"),
           [p |-> 4, tag |-> "P"], Text(7, 300, "Second text"),
           [p |-> 2, tag |-> "P"], Text(9, len, "Third text")>>)

NoScript ==
  [json |-> "empty", type |-> "", name |-> <<>>, headline |-> <<>>, author |-> <<>>,
   description |-> <<>>, publisher |-> <<>>, datePublished |-> <<>>, dateCreated |-> <<>>]

\* The JSON-LD script elements of the model.
Scripts ==
  { NoScript,
    [NoScript EXCEPT !.json = "invalid"],
    [NoScript EXCEPT !.json = "object", !.type = "WebSite", !.name = <<"LD Site Name Text">>],
    [NoScript EXCEPT !.json = "object", !.type = "Article",
                     !.headline = <<"LD Headline Text">>, !.author = <<"LD Author">>,
                     !.description = <<"LD Description">>, !.publisher = <<"LD Publisher">>,
                     !.datePublished = <<"2020-01-01">>],
    [NoScript EXCEPT !.json = "object", !.type = "Article",
                     !.publisher = <<"LD Publisher Only">>, !.dateCreated = <<"2019-01-01">>],
    [NoScript EXCEPT !.json = "object", !.type = "Article",
                     !.name = <<"LD Name Text">>, !.headline = <<"Default Page Title Text">>] }

Meta(attr, name, content) == [attr |-> attr, name |-> name, content |-> content]

\* The META elements of the model.
MetaList ==
  << Meta("property", <<"og", ":", "title">>, <<"OG Title Text">>),
    Meta("name", <<"twitter", ":", "title">>, <<"Twitter Title Text">>),
    Meta("name", <<"dcterm", ".", "title">>, <<"DC Title Text">>),
    Meta("name", <<"title">>, <<"Meta Title Text">>),
    Meta("name", <<"parsely-title">>, <<"Parsely Title Text">>),
    Meta("name", <<"author">>, <<"Meta Author">>),
    Meta("property", <<"og", ":", "description">>, <<"OG Description">>),
    Meta("property", <<"og", ":", "site_name">>, <<"OG Site">>),
    Meta("property", <<"article", ":", "published_time">>, <<"2021-02-02">>),
    Meta("property", <<"og", ":", "image">>, <<"image.png">>),
    Meta("name", <<"description">>, <<>>) >>

\* The document titles of the model.
Titles ==
  { <<>>, <<"Default Page Title Text">>, <<"Short">>,
    <<"A Much Longer Title Of Six Words", "|", "Site">>,
    <<"Breaking News", "|", "Example Site">>,
    <<"Breaking News Today", "|", "Example Site">>,
    <<"Site", ":", "A Much Longer Title Of Six Words">> }

DefaultHead ==
  [title |-> <<"Default Page Title Text">>, dir |-> "", metas |-> <<>>, scripts |-> <<>>,
   baseURI |-> DocumentURI, documentURI |-> DocumentURI]

\* Sequences of at most two different elements of a set.
UpToTwo(S) ==
  {<<>>} \cup {<<x>> : x \in S} \cup {s \in S \X S : s[1] # s[2]}

\* The number of elements of the document: HTML, HEAD, TITLE, the META and
\* SCRIPT elements of the head and the elements of the body, BODY included.
NumTags(head, t) ==
  2 + (IF head.title # <<>> THEN 1 ELSE 0) + Len(head.metas) + Len(head.scripts)
    + 1 + Len(AllElements(t, Root))

(***************************************************************************)
(* The state of one Readability instance and of the document it was given. *)
(***************************************************************************)
VARIABLES
  pc,            \* the position of parse()
  opts,          \* the options: maxElemsToParse, nbTopCandidates, charThreshold,
                 \* keepClasses, classesToPreserve
  head,          \* the document outside its body
  dom,           \* the body of the document
  jsonLd,        \* the result of _getJSONLD
  metadata,      \* this._metadata
  art,           \* this._articleTitle, _articleByline, _articleDir, _articleSiteName
  flags,         \* this._flags
  attemptIndex,  \* the loop variable of _grabArticle
  work,          \* the tree of the attempt: the clone and the elements created
  walk,          \* node, elementsToScore, attemptByline, shouldRemoveTitleHeader
  sel,           \* topCandidate, neededToCreateTopCandidate, articleContent
  attempts,      \* this._attempts
  result,        \* what parse() returned or threw
  body0,         \* history: the body when _grabArticle was called
  hist,          \* history: flags, starting tree, scored tree and top candidate, text
                 \* length, content and byline of each attempt
  page,          \* the page of the application: the variables of its script, the
                 \* elements the script reads and writes, localStorage, the debounce
                 \* timer and the calls of handleExtraction that are suspended
  sw             \* the service worker: the cache storage, the fetch events that are
                 \* being answered, and what was put into the cache

\* The state of the Readability instance.
parser ==
  <<pc, opts, head, dom, jsonLd, metadata, art, flags, attemptIndex, work, walk, sel,
    attempts, result, body0, hist>>

vars == <<parser, page, sw>>

(***************************************************************************)
(* The page of the application: the script of index.html.                  *)
(***************************************************************************)
MAX_RETRIES == 3

\* The longest extracted text of the model, in characters.
MaxTextLen == 7

\* The strings of the prefix and of the extracted text are sequences of
\* characters; a word stands for a run of characters other than white space.
WhiteSpace == {" ", "\n"}

RECURSIVE TrimEnd(_)
\* String.prototype.trimEnd
TrimEnd(s) ==
  IF s # <<>> /\ s[Len(s)] \in WhiteSpace THEN TrimEnd(SubSeq(s, 1, Len(s) - 1)) ELSE s

RECURSIVE TrimStart(_)
TrimStart(s) ==
  IF s # <<>> /\ s[1] \in WhiteSpace THEN TrimStart(Tail(s)) ELSE s

\* String.prototype.trim
Trim(s) == TrimStart(TrimEnd(s))

\* String.prototype.startsWith
StartsWith(s, prefix) ==
  Len(prefix) <= Len(s) /\ SubSeq(s, 1, Len(prefix)) = prefix

\* String.prototype.substring with a start only
Substring(s, start) == SubSeq(s, start + 1, Len(s))

DEFAULT_TEXT_PREFIX == <<"Summarise:", "\n", "\n">>
PRESET_SUMMARISE == <<"Summarise:", "\n", "\n">>

\* What the prefix textarea is set to: a preset, or what the user types.
Prefixes == {PRESET_SUMMARISE, <<>>, <<"Translate:", " ">>}

\* What localStorage holds under PREFIX_STORAGE_KEY: no item, or one string.
StoredItems == {<<>>} \cup {<<prefix>> : prefix \in Prefixes}

\* What the URL input holds: nothing, text without a URL, text with a URL.
Inputs == {"", "see this", "see https://example.org/a"}

\* inputText.match(urlRegex) of handleExtraction and handleIncomingShare
MatchUrl(text) == IF text = "see https://example.org/a" THEN "https://example.org/a" ELSE ""

\* How a fetch of the proxy settles: a response with a status, or an error.
FetchOutcomes ==
  {[threw |-> FALSE, status |-> s] : s \in {200, 404, 503}}
    \cup {[threw |-> TRUE, status |-> 0]}

\* response.ok
Ok(r) == ~ r.threw /\ r.status >= 200 /\ r.status <= 299

\* How the rest of handleExtraction goes once the response is there: the
\* source of the text ("" if neither Readability nor the fallback gave
\* enough), or an error of response.text() or of the parser.
ExtractionOutcomes == {"Readability", "basic fallback", "", "threw"}

\* rawExtractedText of an extraction that found text
RawText == <<"Article">>

\* formattedPrefix of handleExtraction and saveSettings
FormattedPrefix(prefix) ==
  TrimEnd(prefix) \o (IF prefix # <<>> THEN <<"\n", "\n">> ELSE <<>>)

\* A call of handleExtraction before its first fetch: the loop variable of
\* fetchWithRetries, where the call is suspended, the fetches it issued and
\* how the last of them settled.
NoCall == [i |-> 0, pc |-> "none", fetches |-> 0, last |-> [threw |-> FALSE, status |-> 0]]

\* loadPrefix: the stored prefix if localStorage gives one, else the default.
LoadPrefix(stored, readable) ==
  IF readable /\ stored # <<>> THEN stored[1] ELSE DEFAULT_TEXT_PREFIX

\* The page after its script ran: loadPrefix, setInitialButtonState, and the
\* listeners of the extract button.
InitialPage(stored, readable) ==
  [currentTextPrefix |-> LoadPrefix(stored, readable),
   isInResetMode |-> FALSE,
   ariaBusy |-> FALSE,
   debounceTimer |-> FALSE,
   clickHandlers |-> <<"triggerExtractionDebounced">>,
   urlInput |-> "",
   extractedText |-> <<>>,
   prefixTextarea |-> LoadPrefix(stored, readable),
   dialogOpen |-> FALSE,
   storage |-> stored,
   loaded |-> FALSE,
   calls |-> <<>>,
   event |-> ""]

\* addEventListener: a listener that is registered is not registered again.
AddEventListener(handlers, h) ==
  IF h \in SeqToSet(handlers) THEN handlers ELSE Append(handlers, h)

\* removeEventListener
RemoveEventListener(handlers, h) == SelectSeq(handlers, LAMBDA x : x # h)

\* setInitialButtonState
SetInitialButtonState(p) == [p EXCEPT !.isInResetMode = FALSE]

\* setLoadingState
SetLoadingState(p, isLoading) == [p EXCEPT !.ariaBusy = isLoading]

\* A trigger that sets the timer whatever the state of the button.
TriggerUnguarded(p) == [p EXCEPT !.debounceTimer = TRUE]

\* triggerExtractionDebounced: nothing while the button is busy or in reset
\* mode; else the pending timer is cleared and a new one is set.
TriggerExtractionDebounced(p) ==
  IF p.ariaBusy \/ p.isInResetMode THEN p ELSE [p EXCEPT !.debounceTimer = TRUE]

\* A reset that leaves the listeners of the extract button as they are.
ResetKeepingListeners(p) ==
  [SetInitialButtonState(SetLoadingState(p, FALSE)) EXCEPT
     !.urlInput = "", !.extractedText = <<>>]

\* resetUI
ResetUI(p) ==
  [SetInitialButtonState(SetLoadingState(p, FALSE)) EXCEPT
     !.urlInput = "",
     !.extractedText = <<>>,
     !.clickHandlers =
        AddEventListener(RemoveEventListener(@, "triggerReset"),
                         "triggerExtractionDebounced")]

\* One click listener of the extract button.
RunHandler(p, h) ==
  IF h = "triggerReset" THEN ResetUI(p) ELSE TriggerExtractionDebounced(p)

RECURSIVE Dispatch(_, _)
\* The click event: the listeners registered when the event is dispatched run
\* in the order of their registration, one that was removed in between does
\* not run.
Dispatch(p, handlers) ==
  IF handlers = <<>> THEN p
  ELSE IF Head(handlers) \in SeqToSet(p.clickHandlers)
         THEN Dispatch(RunHandler(p, Head(handlers)), Tail(handlers))
  ELSE Dispatch(p, Tail(handlers))

\* The keypress listener of the URL input, for the Enter key.
KeypressEnter(p) ==
  IF p.ariaBusy \/ p.isInResetMode THEN p ELSE TriggerExtractionDebounced(p)

\* handleIncomingShare, with the text it takes from the share parameters.
HandleIncomingShare(p, textToInput) ==
  IF textToInput # ""
    THEN TriggerExtractionDebounced([p EXCEPT !.urlInput = textToInput])
    ELSE p

\* textToInput of handleIncomingShare: the shared URL, else the URL in the
\* shared text, else the shared text.
TextToInput(sharedUrl, sharedText) ==
  IF sharedUrl # "" THEN sharedUrl
  ELSE IF sharedText # ""
         THEN (IF MatchUrl(sharedText) # "" THEN MatchUrl(sharedText) ELSE sharedText)
  ELSE ""

\* handleExtraction up to its first await: nothing but a message without a
\* URL in the input; else the button is busy and fetchWithRetries issues its
\* first fetch.
StartExtraction(p) ==
  IF MatchUrl(p.urlInput) = "" THEN p
  ELSE [SetLoadingState(p, TRUE) EXCEPT
          !.calls = Append(@, [NoCall EXCEPT !.pc = "fetch", !.fetches = 1])]

\* fetchWithRetries when the fetch of attempt i settles with r: the response
\* is returned if it is ok; a 5xx status before the last attempt continues
\* with the next attempt; every other status throws inside the try block,
\* and the catch block throws the error on in the last attempt only.
FetchWithRetries(c, r, retries) ==
  IF Ok(r) THEN [c EXCEPT !.pc = "returned", !.last = r]
  ELSE IF ~ r.threw /\ r.status >= 500 /\ r.status < 600 /\ c.i < retries
         THEN [c EXCEPT !.pc = "delay", !.i = @ + 1, !.last = r]
  ELSE IF c.i = retries THEN [c EXCEPT !.pc = "threw", !.last = r]
  ELSE [c EXCEPT !.pc = "delay", !.i = @ + 1, !.last = r]

\* The sequence without its k-th element.
RemoveAt(s, k) == SubSeq(s, 1, k - 1) \o SubSeq(s, k + 1, Len(s))

\* The branch of handleExtraction for an extraction that found text.
ExtractionSucceeded(p, raw) ==
  [p EXCEPT !.extractedText = FormattedPrefix(p.currentTextPrefix) \o raw,
            !.isInResetMode = TRUE,
            !.clickHandlers =
               AddEventListener(RemoveEventListener(@, "triggerExtractionDebounced"),
                                "triggerReset")]

\* The branch of handleExtraction for an extraction without text, and its
\* catch block.
ExtractionFailed(p) ==
  [SetInitialButtonState(p) EXCEPT
     !.extractedText = <<>>,
     !.clickHandlers =
        AddEventListener(RemoveEventListener(@, "triggerReset"),
                         "triggerExtractionDebounced")]

\* The end of the k-th call of handleExtraction: the finally block.
EndCall(p, k) ==
  [SetLoadingState(p, FALSE) EXCEPT !.calls = RemoveAt(@, k)]

\* A save that keeps the new prefix in memory although the write failed.
SaveWithoutRestore(p, written) ==
  [p EXCEPT !.currentTextPrefix = p.prefixTextarea,
            !.storage = IF written THEN <<p.prefixTextarea>> ELSE @,
            !.dialogOpen = FALSE]

\* saveSettings: the prefix of the textarea becomes the prefix in memory and
\* is written to localStorage; after the write a displayed text that starts
\* with the old prefix and has more than white space after it gets the new
\* prefix; if the write throws, the old prefix is restored.
SaveSettings(p, written) ==
  LET newPrefix == p.prefixTextarea
      oldPrefix == p.currentTextPrefix
      currentOutput == p.extractedText
  IN  IF written
        THEN [p EXCEPT
                !.currentTextPrefix = newPrefix,
                !.storage = <<newPrefix>>,
                !.extractedText =
                   IF /\ currentOutput # <<>>
                      /\ StartsWith(currentOutput, oldPrefix)
                      /\ Len(Trim(Substring(currentOutput, Len(oldPrefix)))) > 0
                     THEN FormattedPrefix(newPrefix)
                            \o Substring(currentOutput, Len(oldPrefix))
                     ELSE @,
                !.dialogOpen = FALSE]
        ELSE [p EXCEPT !.currentTextPrefix = oldPrefix, !.dialogOpen = FALSE]

\* The page with a note of what the last handler did: a call of
\* handleExtraction, its success ("extracted") or failure ("failed"), a
\* call of resetUI, a trigger that was ignored, a prefix that was saved or
\* not ("saved", "notSaved"), or "" for anything else.
Handled(p, event) == [p EXCEPT !.event = event]

\* The user edits the URL input.
TypeUrl ==
  /\ \E text \in Inputs :
       /\ text # page.urlInput
       /\ page' = Handled([page EXCEPT !.urlInput = text], "")
  /\ UNCHANGED <<parser, sw>>

\* A click on the extract button.
ClickExtract ==
  /\ page' = Handled(Dispatch(page, page.clickHandlers),
                     IF "triggerReset" \in SeqToSet(page.clickHandlers) THEN "resetUI"
                     ELSE IF page.ariaBusy \/ page.isInResetMode THEN "ignored"
                     ELSE "")
  /\ UNCHANGED <<parser, sw>>

\* The Enter key in the URL input.
PressEnter ==
  /\ page' = Handled(KeypressEnter(page),
                     IF page.ariaBusy \/ page.isInResetMode THEN "ignored" ELSE "")
  /\ UNCHANGED <<parser, sw>>

\* The load event of the window, with the share parameters of the location.
WindowLoad ==
  /\ ~ page.loaded
  /\ \E sharedUrl \in {"", "https://example.org/a"}, sharedText \in Inputs :
       page' = Handled([HandleIncomingShare(page, TextToInput(sharedUrl, sharedText))
                        EXCEPT !.loaded = TRUE], "")
  /\ UNCHANGED <<parser, sw>>

\* The debounce timer fires: handleExtraction is called.
DebounceFires ==
  /\ page.debounceTimer
  /\ page' = Handled(StartExtraction([page EXCEPT !.debounceTimer = FALSE]),
                   "handleExtraction")
  /\ UNCHANGED <<parser, sw>>

\* A fetch of fetchWithRetries settles; an error that fetchWithRetries throws
\* goes to the catch block and the finally block of handleExtraction.
FetchSettles ==
  /\ \E k \in 1 .. Len(page.calls), r \in FetchOutcomes :
       /\ page.calls[k].pc = "fetch"
       /\ LET c == FetchWithRetries(page.calls[k], r, MAX_RETRIES)
              p == [page EXCEPT !.calls[k] = c]
          IN  page' = IF c.pc = "threw"
                        THEN Handled(EndCall(ExtractionFailed(p), k), "failed")
                        ELSE Handled(p, "")
  /\ UNCHANGED <<parser, sw>>

\* The delay before a further attempt of fetchWithRetries is over: the fetch
\* of the attempt is issued.
DelayElapses ==
  /\ \E k \in 1 .. Len(page.calls) :
       /\ page.calls[k].pc = "delay"
       /\ page' = Handled([page EXCEPT !.calls[k].pc = "fetch",
                                     !.calls[k].fetches = @ + 1], "")
  /\ UNCHANGED <<parser, sw>>

\* The text of the response is there: the rest of handleExtraction.
TextSettles ==
  /\ \E k \in 1 .. Len(page.calls), source \in ExtractionOutcomes :
       /\ page.calls[k].pc = "returned"
       /\ page' = IF source \in {"", "threw"}
                    THEN Handled(EndCall(ExtractionFailed(page), k), "failed")
                    ELSE Handled(EndCall(ExtractionSucceeded(page, RawText), k), "extracted")
  /\ UNCHANGED <<parser, sw>>

\* openSettings
OpenSettings ==
  /\ ~ page.dialogOpen
  /\ page' = Handled([page EXCEPT !.prefixTextarea = page.currentTextPrefix,
                                !.dialogOpen = TRUE], "")
  /\ UNCHANGED <<parser, sw>>

\* The user types into the prefix textarea, or setPrefixFromPreset.
EditPrefix ==
  /\ page.dialogOpen
  /\ \E prefix \in Prefixes :
       /\ prefix # page.prefixTextarea
       /\ page' = Handled([page EXCEPT !.prefixTextarea = prefix], "")
  /\ UNCHANGED <<parser, sw>>

\* The settings form is submitted: saveSettings, with a write to
\* localStorage that succeeds or throws.
SubmitSettings ==
  /\ page.dialogOpen
  /\ \E written \in BOOLEAN :
       /\ Len(SaveSettings(page, written).extractedText) <= MaxTextLen
       /\ page' = Handled(SaveSettings(page, written), IF written THEN "saved" ELSE "notSaved")
  /\ UNCHANGED <<parser, sw>>

\* closeSettings
CloseSettings ==
  /\ page.dialogOpen
  /\ page' = Handled([page EXCEPT !.dialogOpen = FALSE], "")
  /\ UNCHANGED <<parser, sw>>

PageNext ==
  \/ TypeUrl
  \/ ClickExtract
  \/ PressEnter
  \/ WindowLoad
  \/ DebounceFires
  \/ FetchSettles
  \/ DelayElapses
  \/ TextSettles
  \/ OpenSettings
  \/ EditPrefix
  \/ SubmitSettings
  \/ CloseSettings

(***************************************************************************)
(* The service worker (sw.js).                                             *)
(***************************************************************************)
CACHE_NAME == "article-extractor-cache-v1"

\* The cache of an earlier version of the worker.
OldCacheName == "article-extractor-cache-v0"

CacheNames == {CACHE_NAME, OldCacheName}

\* The core assets, of which the model has the page.
urlsToCache == {"/ArticleScraper/"}

\* The URLs that are requested: the core assets, another file of the
\* origin, and the proxy, which is of another origin.
RequestUrls == urlsToCache \cup {"/ArticleScraper/manifest.json", "https://api.allorigins.win/raw"}

RequestMethods == {"GET", "POST"}

MaxRequests == 2

\* Response.type of a response of the network.
ResponseType(url) == IF url = "https://api.allorigins.win/raw" THEN "cors" ELSE "basic"

\* The responses of the network to a request; none stands for a failed fetch.
NetworkResponses(url) ==
  {[url |-> url, status |-> s, type |-> ResponseType(url)] : s \in {200, 404}}

NoResponse == [url |-> "", status |-> 0, type |-> ""]

NoRequest == [pc |-> "free", method |-> "", url |-> ""]

\* caches.match: the response of the first cache that has one for the URL.
CachesMatch(caches, url) ==
  IF \E name \in CacheNames : \E r \in caches[name] : r.url = url
    THEN LET name == IF \E r \in caches[CACHE_NAME] : r.url = url
                       THEN CACHE_NAME ELSE OldCacheName
         IN  CHOOSE r \in caches[name] : r.url = url
    ELSE NoResponse

\* cache.put: the response replaces the one the cache has for the URL.
CachePut(cache, r) == {e \in cache : e.url # r.url} \cup {r}

\* A test that lets every response into the cache.
IsResponse(r) == r # NoResponse

\* The test of the fetch listener on a response of the network: only a
\* response with status 200 and type basic is put into the cache.
IsCacheable(r) == r # NoResponse /\ r.status = 200 /\ r.type = "basic"

\* The worker before its install event, with the cache of an earlier version
\* or without.
InitialWorker(old) ==
  [phase |-> "parsed",
   caches |-> [name \in CacheNames |-> IF name = OldCacheName THEN old ELSE {}],
   requests |-> [k \in 1 .. MaxRequests |-> NoRequest],
   toPut |-> <<>>,
   put |-> {},
   answer |-> [method |-> "", source |-> "", response |-> NoResponse]]

\* The lowest slot without a request.
FreeSlot(requests) ==
  CHOOSE k \in DOMAIN requests :
    requests[k].pc = "free" /\ \A j \in DOMAIN requests : requests[j].pc = "free" => k <= j

\* The install listener: cache.addAll of the core assets puts all of them
\* or, if one of them cannot be fetched, none; the error is caught.
Install ==
  /\ sw.phase = "parsed"
  /\ \E added \in BOOLEAN :
       sw' = [sw EXCEPT
                !.phase = "installed",
                !.caches[CACHE_NAME] =
                   IF added
                     THEN {[url |-> u, status |-> 200, type |-> "basic"] : u \in urlsToCache}
                     ELSE @]
  /\ UNCHANGED <<parser, page>>

\* The activate listener: every cache of another name is deleted.
Activate ==
  /\ sw.phase = "installed"
  /\ sw' = [sw EXCEPT
              !.phase = "activated",
              !.caches = [name \in CacheNames |-> IF name # CACHE_NAME THEN {} ELSE @[name]]]
  /\ UNCHANGED <<parser, page>>

\* The fetch listener up to caches.match: a request of another method than
\* GET is left to the browser.
FetchEvent ==
  /\ sw.phase = "activated"
  /\ \E k \in DOMAIN sw.requests : sw.requests[k].pc = "free"
  /\ Len(sw.toPut) < MaxRequests
  /\ \E method \in RequestMethods, url \in RequestUrls :
       sw' = IF method # "GET"
               THEN [sw EXCEPT !.answer = [method |-> method, source |-> "browser",
                                           response |-> NoResponse]]
               ELSE [sw EXCEPT !.requests[FreeSlot(sw.requests)] =
                                  [pc |-> "match", method |-> method, url |-> url]]
  /\ UNCHANGED <<parser, page>>

\* caches.match settles: a response of a cache is the answer; without one
\* the request is fetched from the network.
MatchSettles ==
  /\ \E k \in DOMAIN sw.requests :
       /\ sw.requests[k].pc = "match"
       /\ LET response == CachesMatch(sw.caches, sw.requests[k].url)
          IN  sw' = IF response # NoResponse
                      THEN [sw EXCEPT !.requests[k] = NoRequest,
                                      !.answer = [method |-> sw.requests[k].method,
                                                  source |-> "cache",
                                                  response |-> response]]
                      ELSE [sw EXCEPT !.requests[k].pc = "fetch"]
  /\ UNCHANGED <<parser, page>>

\* The fetch of the network settles: its response is the answer, and a
\* response that passes the test is handed to caches.open for the cache; a
\* failed fetch is caught and gives no response.
NetworkSettles ==
  /\ \E k \in DOMAIN sw.requests :
       /\ sw.requests[k].pc = "fetch"
       /\ \E networkResponse \in NetworkResponses(sw.requests[k].url) \cup {NoResponse} :
            sw' = [sw EXCEPT
                     !.requests[k] = NoRequest,
                     !.answer = [method |-> sw.requests[k].method,
                                 source |-> IF networkResponse = NoResponse
                                              THEN "none" ELSE "network",
                                 response |-> networkResponse],
                     !.toPut = IF IsCacheable(networkResponse)
                                 THEN Append(@, [method |-> sw.requests[k].method,
                                                 response |-> networkResponse])
                                 ELSE @]
  /\ UNCHANGED <<parser, page>>

\* caches.open settles: cache.put of the response.
PutSettles ==
  /\ sw.toPut # <<>>
  /\ sw' = [sw EXCEPT
              !.toPut = Tail(@),
              !.caches[CACHE_NAME] = CachePut(@, Head(sw.toPut).response),
              !.put = @ \cup {Head(sw.toPut)}]
  /\ UNCHANGED <<parser, page>>

WorkerNext ==
  \/ Install
  \/ Activate
  \/ FetchEvent
  \/ MatchSettles
  \/ NetworkSettles
  \/ PutSettles

\* flagSequences
FlagSequences ==
  << {FLAG_STRIP_UNLIKELYS, FLAG_WEIGHT_CLASSES, FLAG_CLEAN_CONDITIONALLY},
     {FLAG_WEIGHT_CLASSES, FLAG_CLEAN_CONDITIONALLY},
     {FLAG_CLEAN_CONDITIONALLY},
     {} >>

DefaultOptions ==
  [maxElemsToParse |-> DEFAULT_MAX_ELEMS_TO_PARSE,
   nbTopCandidates |-> DEFAULT_N_TOP_CANDIDATES,
   charThreshold |-> DEFAULT_CHAR_THRESHOLD,
   keepClasses |-> FALSE,
   classesToPreserve |-> {}]

EmptyTree == [i \in NodeIds |-> Free]
NoWalk == [node |-> Nil, els |-> <<>>, byl |-> <<>>, rmh |-> TRUE]
NoSelection == [top |-> Nil, needed |-> FALSE, tops |-> <<>>, ac |-> Nil]
NoResult == [kind |-> "none"]

\* The fields of the instance after the constructor.
Constructed ==
  /\ pc = "start"
  /\ jsonLd = NoMetadata
  /\ metadata = NoMetadata
  /\ art = [title |-> <<>>, byline |-> <<>>, dir |-> "", siteName |-> <<>>]
  /\ flags = FlagSequences[1]
  /\ attemptIndex = 0
  /\ work = EmptyTree
  /\ walk = NoWalk
  /\ sel = NoSelection
  /\ attempts = <<>>
  /\ result = NoResult
  /\ body0 = EmptyTree
  /\ hist = <<>>

\* The sets of at most two of the first n list positions, in order.
Picks(n) ==
  {<<>>} \cup {<<i>> : i \in 1 .. n} \cup {s \in (1 .. n) \X (1 .. n) : s[1] < s[2]}


\* The documents and options of the model: every body with the default head
\* and options, some bodies with other options, one body with every head,
\* the bodies with links and media under each base URI, the bodies with dir
\* attributes, the bodies with nested classes under the class options, and
\* the bodies with code, with lists, with a quotation and with nested
\* articles.
InitDocuments ==
  \/ /\ \E wtag \in WrapperTags, wcls \in WrapperClasses, len \in TextLengths,
          extra \in Extras : dom = Body(wtag, wcls, len, extra)
     /\ head = DefaultHead
     /\ opts = DefaultOptions
  \/ /\ \E wcls \in {"", "sidebar"}, len \in TextLengths, extra \in {"none", "links"} :
          dom = Body("SECTION", wcls, len, extra)
     /\ head = DefaultHead
     /\ \E max \in {4, 5, 6, 9}, threshold \in {300, DEFAULT_CHAR_THRESHOLD} :
          opts = [DefaultOptions EXCEPT !.maxElemsToParse = max,
                                        !.charThreshold = threshold]
  \/ /\ dom = Body("SECTION", "", 600, "heading")
     /\ opts = DefaultOptions
     /\ \/ \E scripts \in UpToTwo(Scripts), picks \in Picks(Len(MetaList)) :
             head = [DefaultHead EXCEPT
                       !.scripts = scripts,
                       !.metas = [i \in 1 .. Len(picks) |-> MetaList[picks[i]]]]
        \/ \E title \in Titles, dir \in {"", "rtl"} :
             head = [DefaultHead EXCEPT !.title = title, !.dir = dir]
  \/ /\ \E u \in Uris, v \in Uris : dom = BodyWithUris(u, v)
     /\ opts = DefaultOptions
     /\ \E base \in BaseURIs : head = [DefaultHead EXCEPT !.baseURI = base]
  \/ /\ \E b \in {"", "ltr"}, d \in {"", "rtl"}, s \in {"", "ltr"} :
          dom = BodyWithDirs(b, d, s)
     /\ opts = DefaultOptions
     /\ \E dir \in {"", "rtl"} : head = [DefaultHead EXCEPT !.dir = dir]
  \/ /\ \E o \in {"", "content", "promo"}, i \in {"", "content", "promo"} :
          dom = BodyWithClasses(o, i)
     /\ head = DefaultHead
     /\ \E keep \in BOOLEAN, names \in {{}, {"content"}},
          nb \in {1, DEFAULT_N_TOP_CANDIDATES} :
          opts = [DefaultOptions EXCEPT !.keepClasses = keep,
                                        !.classesToPreserve = names,
                                        !.nbTopCandidates = nb]
  \/ /\ \/ \E k \in {0, 2, 3}, c \in {"", "promo"} : dom = BodyWithCode(k, c)
        \/ \E tag \in {"DIV", "FORM"}, len \in {50, 300} : dom = BodyWithList(tag, len)
        \/ \E len \in {0, 50, 300} : dom = BodyWithQuote(len)
        \/ \E len \in {50, 300} : dom = BodyNested(len)
     /\ head = DefaultHead
     /\ opts = DefaultOptions

\* A Readability instance for a document, beside a page that has run its
\* script and a worker that has not been installed.
Init ==
  /\ Constructed /\ InitDocuments
  /\ page = InitialPage(<<>>, TRUE)
  /\ sw = InitialWorker({})

\* A Readability instance that no handler has called yet.
ParserIdle ==
  /\ Constructed
  /\ dom = Body("SECTION", "", 600, "none")
  /\ head = DefaultHead
  /\ opts = DefaultOptions

\* The page after its script ran, with each content of localStorage, readable
\* or not.
PageInit ==
  /\ ParserIdle
  /\ \E stored \in StoredItems, readable \in BOOLEAN : page = InitialPage(stored, readable)
  /\ sw = InitialWorker({})

\* The worker before its install event, with each cache of an earlier
\* version.
WorkerInit ==
  /\ ParserIdle
  /\ page = InitialPage(<<>>, TRUE)
  /\ \E old \in SUBSET {[url |-> u, status |-> 200, type |-> "basic"] :
                          u \in {"/ArticleScraper/old.js"}} :
       sw = InitialWorker(old)

(***************************************************************************)
(* parse()                                                                 *)
(***************************************************************************)
\* A guard that also refuses a document of exactly the ceiling.
AtLeastMaxElements(numTags, maxElemsToParse) ==
  maxElemsToParse > 0 /\ numTags >= maxElemsToParse

\* Whether parse() refuses a document of numTags elements.
TooManyElements(numTags, maxElemsToParse) ==
  maxElemsToParse > 0 /\ numTags > maxElemsToParse

\* The guard on the size of the document.
Guard ==
  /\ pc = "start"
  /\ IF TooManyElements(NumTags(head, dom), opts.maxElemsToParse)
       THEN pc' = "threw" /\ result' = [kind |-> "threw"]
       ELSE pc' = "jsonld" /\ UNCHANGED result
  /\ UNCHANGED <<opts, head, dom, jsonLd, metadata, art, flags, attemptIndex, work, walk,
                 sel, attempts, body0, hist>>
  /\ UNCHANGED <<page, sw>>

\* _unwrapNoscriptImages (the documents have no NOSCRIPT) and _getJSONLD.
ReadJSONLD ==
  /\ pc = "jsonld"
  /\ LET read == GetJSONLD(head, dom, Root)
     IN  IF read.threw
           THEN pc' = "threw" /\ result' = [kind |-> "threw"] /\ UNCHANGED jsonLd
           ELSE pc' = "prepdoc" /\ jsonLd' = read.metadata /\ UNCHANGED result
  /\ UNCHANGED <<opts, head, dom, metadata, art, flags, attemptIndex, work, walk, sel,
                 attempts, body0, hist>>
  /\ UNCHANGED <<page, sw>>

\* _removeScripts and _prepDocument.
PrepDoc ==
  /\ pc = "prepdoc"
  /\ head' = [head EXCEPT !.scripts = <<>>]
  /\ dom' = Collect(PrepDocument(RemoveScripts(dom, Root), Root), {Root})
  /\ pc' = "metadata"
  /\ UNCHANGED <<opts, jsonLd, metadata, art, flags, attemptIndex, work, walk, sel,
                 attempts, result, body0, hist>>
  /\ UNCHANGED <<page, sw>>

\* _getArticleMetadata and the fields set from it; _grabArticle is entered.
Metadata ==
  /\ pc = "metadata"
  /\ metadata' = GetArticleMetadata(jsonLd, head, dom, Root)
  /\ art' = [art EXCEPT !.title = metadata'.title, !.byline = metadata'.byline,
                        !.siteName = metadata'.siteName]
  /\ body0' = dom
  /\ pc' = "attempt"
  /\ UNCHANGED <<opts, head, dom, jsonLd, flags, attemptIndex, work, walk, sel, attempts,
                 result, hist>>
  /\ UNCHANGED <<page, sw>>

(***************************************************************************)
(* _grabArticle()                                                          *)
(***************************************************************************)
\* A later attempt that goes on with the tree the attempt before it left.
ReuseTree(original, previous, index) ==
  IF index = 0 THEN CloneNode(original, Root) ELSE previous

\* The tree an attempt starts from: a deep clone of the original page.
StartTree(original, previous, index) == CloneNode(original, Root)

\* The head of one iteration of the loop over flagSequences.
AttemptStart ==
  /\ pc = "attempt"
  /\ attemptIndex < Len(FlagSequences)
  /\ flags' = FlagSequences[attemptIndex + 1]
  /\ work' = StartTree(dom, work, attemptIndex)
  /\ walk' = [NoWalk EXCEPT !.node = FirstElementChild(work', Root)]
  /\ sel' = NoSelection
  /\ hist' = Append(hist, [flags |-> flags', start |-> work', len |-> 0 - 1,
                            out |-> EmptyTree, root |-> Nil, byl |-> <<>>,
                            scored |-> EmptyTree, top |-> Nil])
  /\ pc' = "walk"
  /\ UNCHANGED <<opts, head, dom, jsonLd, metadata, art, attemptIndex, attempts, result,
                 body0>>
  /\ UNCHANGED <<page, sw>>

\* One iteration of the node walk.
Walk ==
  /\ pc = "walk"
  /\ walk.node # Nil
  /\ LET w == WalkStep(flags, art.title,
                       [t |-> work, node |-> walk.node, els |-> walk.els,
                        byl |-> walk.byl, rmh |-> walk.rmh])
     IN  /\ work' = w.t
         /\ walk' = [node |-> w.node, els |-> w.els, byl |-> w.byl, rmh |-> w.rmh]
  /\ UNCHANGED <<pc, opts, head, dom, jsonLd, metadata, art, flags, attemptIndex, sel,
                 attempts, result, body0, hist>>
  /\ UNCHANGED <<page, sw>>

\* Candidate scoring and the choice of the top candidate.
Select ==
  /\ pc = "walk"
  /\ walk.node = Nil
  /\ \E s \in {SelectTopCandidate(flags, opts.nbTopCandidates, work, Root, walk.els)} :
         /\ work' = s.t
         /\ sel' = [top |-> s.top, needed |-> s.needed, tops |-> s.tops, ac |-> Nil]
         /\ hist' = [hist EXCEPT ![Len(hist)].scored = s.t, ![Len(hist)].top = s.top]
  /\ pc' = "join"
  /\ UNCHANGED <<opts, head, dom, jsonLd, metadata, art, flags, attemptIndex, walk,
                 attempts, result, body0>>
  /\ UNCHANGED <<page, sw>>

\* Sibling joining.
Join ==
  /\ pc = "join"
  /\ LET j == JoinSiblings(work, sel.top, sel.needed)
     IN  work' = j[1] /\ sel' = [sel EXCEPT !.ac = j[2]]
  /\ pc' = "sanitize"
  /\ UNCHANGED <<opts, head, dom, jsonLd, metadata, art, flags, attemptIndex, walk,
                 attempts, result, body0, hist>>
  /\ UNCHANGED <<page, sw>>

\* _prepArticle(articleContent)
Sanitize ==
  /\ pc = "sanitize"
  /\ work' = PrepArticle(flags, art.title, work, sel.ac)
  /\ pc' = "check"
  /\ UNCHANGED <<opts, head, dom, jsonLd, metadata, art, flags, attemptIndex, walk, sel,
                 attempts, result, body0, hist>>
  /\ UNCHANGED <<page, sw>>

\* A success check that wants more text than the threshold.
SucceedsAbove(textLength, charThreshold) == textLength > charThreshold

\* Whether an attempt with this text length is a success.
Succeeds(textLength, charThreshold) == textLength >= charThreshold

\* The success check of the attempt: the article is finalized, or the attempt
\* is recorded and the loop goes on.
Check ==
  /\ pc = "check"
  /\ LET textLength == GetInnerTextLength(work, sel.ac)
         final == FinalizeArticle(work, sel.ac, sel.top, sel.needed, dom[Root].dir,
                                  head.dir, art.dir)
     IN  /\ hist' = [hist EXCEPT ![Len(hist)].len = textLength,
                                  ![Len(hist)].out = CloneNode(work, sel.ac),
                                  ![Len(hist)].root = sel.ac,
                                  ![Len(hist)].byl = walk.byl]
         /\ IF Succeeds(textLength, opts.charThreshold)
              THEN /\ art' = [art EXCEPT
                                !.byline = FirstOf(<<metadata.byline, @, walk.byl>>),
                                !.dir = final.dir]
                   /\ work' = Collect(final.t, {sel.ac})
                   /\ pc' = "post"
                   /\ UNCHANGED <<attempts, attemptIndex>>
              ELSE /\ attempts' = Append(attempts,
                                    [t |-> CloneNode(work, sel.ac), root |-> sel.ac,
                                     textLength |-> textLength])
                   /\ attemptIndex' = attemptIndex + 1
                   /\ pc' = IF attemptIndex + 1 < Len(FlagSequences)
                              THEN "attempt" ELSE "fallback"
                   /\ UNCHANGED <<art, work>>
  /\ UNCHANGED <<opts, head, dom, jsonLd, metadata, flags, walk, sel, result, body0>>
  /\ UNCHANGED <<page, sw>>

\* The attempts left in the order they were made.
KeepOrder(as) == as

RECURSIVE SortAttempts(_)
\* this._attempts.sort((a, b) => b.textLength - a.textLength): the longest
\* first, attempts of equal length in the order they were made.
SortAttempts(as) ==
  IF as = <<>> THEN <<>>
  ELSE LET longest == {i \in 1 .. Len(as) : \A j \in 1 .. Len(as) :
                                               as[j].textLength <= as[i].textLength}
           first == CHOOSE i \in longest : \A j \in longest : i <= j
       IN  <<as[first]>> \o SortAttempts(SubSeq(as, 1, first - 1)
                                         \o SubSeq(as, first + 1, Len(as)))

\* A fall-back that wants the longest attempt to reach the default threshold.
HasEnoughContent(sorted) ==
  sorted # <<>> /\ sorted[1].textLength >= DEFAULT_CHAR_THRESHOLD

\* Whether the longest failed attempt is returned.
HasAnyContent(sorted) == sorted # <<>> /\ sorted[1].textLength > 0

\* Every attempt failed: the longest one is finalized, if it has any text.
Fallback ==
  /\ pc = "fallback"
  /\ attempts' = SortAttempts(attempts)
  /\ IF HasAnyContent(attempts')
       THEN LET best == attempts'[1]
                final == FinalizeArticle(best.t, best.root, Nil, TRUE, dom[Root].dir,
                                         head.dir, art.dir)
            IN  /\ work' = final.t
                /\ sel' = [NoSelection EXCEPT !.needed = TRUE, !.ac = best.root]
                /\ art' = [art EXCEPT !.dir = final.dir]
                /\ pc' = "post"
                /\ UNCHANGED result
       ELSE /\ result' = [kind |-> "null"]
            /\ pc' = "done"
            /\ UNCHANGED <<work, sel, art>>
  /\ UNCHANGED <<opts, head, dom, jsonLd, metadata, flags, attemptIndex, walk, body0, hist>>
  /\ UNCHANGED <<page, sw>>

\* The first 300 characters of the text of a paragraph.
Excerpt(t, p) ==
  IF GetInnerTextLength(t, p) > 300 THEN <<TextValue(t, p), "[0,300)">>
  ELSE Str(TextValue(t, p))

\* _postProcessContent, the excerpt fall-back and the result of parse().
Post ==
  /\ pc = "post"
  /\ LET done == PostProcessContent(work, sel.ac, head.baseURI, head.documentURI,
                                    opts.keepClasses, opts.classesToPreserve)
         ps == GetAllNodesWithTag(done.t, sel.ac, {"P"})
         excerpt == IF metadata.excerpt = <<>> /\ ps # <<>>
                      THEN Excerpt(done.t, ps[1]) ELSE metadata.excerpt
     IN  IF done.threw
           THEN /\ pc' = "threw"
                /\ result' = [kind |-> "threw"]
                /\ UNCHANGED <<work, metadata>>
           ELSE /\ work' = Collect(done.t, {sel.ac})
                /\ metadata' = [metadata EXCEPT !.excerpt = excerpt]
                /\ result' = [kind |-> "article", title |-> art.title,
                              byline |-> art.byline, dir |-> art.dir,
                              length |-> GetInnerTextLength(done.t, sel.ac),
                              excerpt |-> excerpt, siteName |-> art.siteName,
                              publishedTime |-> metadata.publishedTime]
                /\ pc' = "done"
  /\ UNCHANGED <<opts, head, dom, jsonLd, art, flags, attemptIndex, walk, sel, attempts,
                 body0, hist>>
  /\ UNCHANGED <<page, sw>>

Next ==
  \/ Guard
  \/ ReadJSONLD
  \/ PrepDoc
  \/ Metadata
  \/ AttemptStart
  \/ Walk
  \/ Select
  \/ Join
  \/ Sanitize
  \/ Check
  \/ Fallback
  \/ Post

Spec == Init /\ [][Next]_vars

\* The page under every interleaving of its events.
PageSpec == PageInit /\ [][PageNext]_vars

\* The service worker under every interleaving of its events.
WorkerSpec == WorkerInit /\ [][WorkerNext]_vars

(***************************************************************************)
(* The properties checked of the retry loop of _grabArticle.               *)
(***************************************************************************)
\* The flag sets of the attempts, in the order the loop is to use them.
ClaimedFlagOrder ==
  << {FLAG_STRIP_UNLIKELYS, FLAG_WEIGHT_CLASSES, FLAG_CLEAN_CONDITIONALLY},
     {FLAG_WEIGHT_CLASSES, FLAG_CLEAN_CONDITIONALLY},
     {FLAG_CLEAN_CONDITIONALLY},
     {} >>

\* The greatest text length among the attempts made.
MaxAttemptLength ==
  CHOOSE m \in {hist[i].len : i \in 1 .. Len(hist)} : \A i \in 1 .. Len(hist) : hist[i].len <= m

\* C1: _grabArticle runs at most four attempts, in the fixed flag order, each
\* flag set a strict subset of the one before; an attempt starts only after
\* every earlier attempt produced text shorter than charThreshold, and an
\* attempt whose text length is at least charThreshold is the last one: the
\* run ends with its content.
C1_AttemptOrder ==
  /\ Len(hist) <= 4
  /\ \A i \in 1 .. Len(hist) : hist[i].flags = ClaimedFlagOrder[i]
  /\ \A i \in 1 .. Len(hist) - 1 :
       /\ hist[i + 1].flags \subseteq hist[i].flags /\ hist[i + 1].flags # hist[i].flags
       /\ hist[i].len >= 0 /\ hist[i].len < opts.charThreshold
  /\ \A i \in 1 .. Len(hist) :
       hist[i].len >= opts.charThreshold =>
         /\ i = Len(hist)
         /\ pc \in {"post", "done"}
         /\ sel.ac = hist[i].root
         /\ pc = "done" => result.kind = "article" /\ result.length = hist[i].len

\* A run that ended with the content of its third attempt.
C1_Witness ==
  /\ pc = "done" /\ result.kind = "article"
  /\ Len(hist) = 3 /\ hist[3].len >= opts.charThreshold

\* Whether the run made four attempts and every one of them fell short.
AllAttemptsFailed ==
  /\ Len(hist) = 4
  /\ \A i \in 1 .. 4 : hist[i].len >= 0 /\ hist[i].len < opts.charThreshold

\* The earliest attempt whose text length is the greatest.
EarliestLongest ==
  CHOOSE k \in 1 .. Len(hist) :
    /\ hist[k].len = MaxAttemptLength
    /\ \A j \in 1 .. (k - 1) : hist[j].len < MaxAttemptLength

\* The tree without the page id and class that _finalizeArticle puts on n.
Unfinalized(t, n) == [t EXCEPT ![n].id = "", ![n].cls = ""]

\* C2: when all four attempts fall short of charThreshold, _grabArticle
\* returns the content of an attempt whose text length is the greatest, the
\* earliest such attempt on ties, whenever that length is above 0, and null
\* only when every attempt's length is 0.
C2_LongestFailedAttempt ==
  (pc \in {"post", "done"} /\ AllAttemptsFailed) =>
    IF MaxAttemptLength > 0
    THEN /\ sel.ac = hist[EarliestLongest].root
         /\ pc = "post" => Unfinalized(work, sel.ac) = hist[EarliestLongest].out
         /\ pc = "done" => result.kind = "article" /\ result.length = MaxAttemptLength
    ELSE pc = "done" /\ result.kind = "null"

\* A run that fell back on an attempt that was not the first.
C2_Witness ==
  /\ pc = "done" /\ result.kind = "article" /\ AllAttemptsFailed
  /\ hist[1].len < MaxAttemptLength

\* Whether the only text of the original page inside a paragraph is one run
\* of 50 characters.
SingleShortParagraph ==
  LET prose == {k \in NodeIds : /\ body0[k].tag = "#text" /\ body0[k].len > 0
                                /\ body0[k].par # Nil
                                /\ body0[body0[k].par].tag = "P"}
  IN  Cardinality(prose) = 1 /\ \A k \in prose : body0[k].len = 50

\* Whether all four attempts produced some text, each less than the default
\* threshold.
EveryAttemptShort ==
  /\ opts.charThreshold = DEFAULT_CHAR_THRESHOLD
  /\ Len(hist) = 4
  /\ \A i \in 1 .. 4 : hist[i].len > 0 /\ hist[i].len < DEFAULT_CHAR_THRESHOLD

\* C3 (amended): for a page whose only prose is a single 50-character
\* paragraph, all four attempts non-empty and shorter than the default
\* threshold of 500, parse() returns an article, the longest of the failed
\* attempts, and not null.
C3_ShortPageReturned ==
  (pc = "done" /\ SingleShortParagraph /\ EveryAttemptShort) =>
    result.kind = "article" /\ result.length = MaxAttemptLength

\* C3 as stated: for such a page parse() returns null.
C3_ShortPageIsNull ==
  (pc = "done" /\ SingleShortParagraph /\ EveryAttemptShort) =>
    result.kind = "null"

\* A finished run on a page with a single 50-character paragraph.
C3_Witness ==
  pc = "done" /\ SingleShortParagraph /\ EveryAttemptShort /\ result.length = 50

\* C4: with maxElemsToParse above 0 and more elements in the document than
\* that, parse() throws at its first step and changes nothing; with no more
\* elements than the ceiling, or a ceiling of 0, the first step does not
\* throw and parsing goes on.
C4_ElementCeiling ==
  [][pc = "start" =>
       IF opts.maxElemsToParse > 0 /\ NumTags(head, dom) > opts.maxElemsToParse
       THEN /\ pc' = "threw" /\ result'.kind = "threw"
            /\ UNCHANGED <<head, dom, metadata, jsonLd, art, work, attempts>>
       ELSE pc' = "jsonld" /\ result' = result]_vars

\* A document refused for its number of elements.
C4_Witness ==
  /\ pc = "threw" /\ opts.maxElemsToParse > 0
  /\ NumTags(head, dom) = opts.maxElemsToParse + 1

\* C5: no attempt changes the original body: every attempt starts from a
\* deep clone of it, so each attempt sees the starting tree of the first.
C5_OriginalBodyKept ==
  hist # <<>> =>
    /\ dom = body0
    /\ \A k \in 1 .. Len(hist) :
         hist[k].start = CloneNode(body0, Root) /\ hist[k].start = hist[1].start

\* A second attempt made after the first emptied its own tree of content.
C5_Witness ==
  /\ Len(hist) >= 2 /\ hist[1].len = 0 /\ hist[2].len > 0
  /\ hist[2].start = hist[1].start /\ dom = body0

\* C6: _prepArticle is idempotent: run on content it has already sanitised,
\* it changes nothing.
C6_PrepArticleIdempotent ==
  pc = "check" =>
    Collect(PrepArticle(flags, art.title, work, sel.ac), {sel.ac}) = Collect(work, {sel.ac})

(***************************************************************************)
(* The properties checked of the metadata.                                 *)
(***************************************************************************)
\* What the META elements alone give: _getArticleMetadata without JSON-LD.
MetaOnly == GetArticleMetadata(NoMetadata, head, body0, Root)

\* The field of the result that a JSON-LD field is to end up in.
JsonLdFields ==
  << <<"title", "title">>, <<"byline", "byline">>, <<"excerpt", "excerpt">>,
     <<"siteName", "siteName">>, <<"datePublished", "publishedTime">> >>

\* C7: for title, byline, excerpt, siteName and publishedTime, the value
\* JSON-LD supplies is the one in the result, and a value from the META
\* elements is used only for a field JSON-LD left empty.
C7_JsonLdFirst ==
  (pc = "done" /\ result.kind = "article") =>
    \A i \in 1 .. Len(JsonLdFields) :
      LET supplied == jsonLd[JsonLdFields[i][1]]
          field == JsonLdFields[i][2]
      IN  /\ supplied # <<>> => result[field] = supplied
          /\ (supplied = <<>> /\ MetaOnly[field] # <<>>) => result[field] = MetaOnly[field]

\* The content of the META element whose name or property spells key, dots
\* read as colons; empty when there is none.
MetaNamed(key) ==
  LET spelled(m) == [i \in 1 .. Len(m.name) |-> IF m.name[i] = "." THEN ":" ELSE m.name[i]]
      hits == SelectSeq(head.metas, LAMBDA m : spelled(m) = key /\ m.content # <<>>)
  IN  IF hits = <<>> THEN <<>> ELSE hits[Len(hits)].content

\* The title sources of the chain, the JSON-LD title first.
ClaimedTitle ==
  FirstOf(<<jsonLd.title, MetaNamed(<<"og", ":", "title">>),
            MetaNamed(<<"twitter", ":", "title">>), MetaNamed(<<"dcterm", ":", "title">>),
            MetaNamed(<<"title">>), MetaNamed(<<"parsely-title">>)>>)

\* C8: the title is the first present of the JSON-LD title, og:title,
\* twitter:title, dcterm:title, the META named title and parsely-title, so
\* each is used when it is the only one present, parsely-title included; the
\* heuristic on the TITLE element is used only when none is present.
C8_TitleChain ==
  (pc = "done" /\ result.kind = "article") =>
    result.title = IF ClaimedTitle # <<>> THEN ClaimedTitle
                   ELSE GetArticleTitle(head.title, body0, Root)

\* The JSON-LD scripts of the document that JSON.parse accepts.
ValidScripts == SelectSeq(head.scripts, LAMBDA s : s.json # "invalid")

\* C9: a JSON-LD block that does not parse is skipped without aborting:
\* _getJSONLD returns what it returns for the document without that block,
\* so a later well-formed article block is still used, and parse() goes on
\* to the META elements and the content.
C9_InvalidJsonLdSkipped ==
  [][pc = "jsonld" =>
       /\ pc' = "prepdoc"
       /\ jsonLd' = GetJSONLD([head EXCEPT !.scripts = ValidScripts], dom, Root).metadata
       /\ UNCHANGED <<head, dom, result>>]_vars

\* _getJSONLD has returned the values of the article block that follows a
\* block that does not parse, and parse() is about to go on.
C9_Witness ==
  /\ pc = "prepdoc"
  /\ Len(head.scripts) = 2
  /\ head.scripts[1].json = "invalid" /\ head.scripts[2].type = "Article"
  /\ head.scripts[2].headline # <<>> /\ jsonLd.title = head.scripts[2].headline

(***************************************************************************)
(* The properties checked of _fixRelativeUris.                             *)
(***************************************************************************)
\* C10: an href, src, poster or srcset value that does not resolve against
\* the base, protocol-relative values included, keeps its original value,
\* and parse() throws for no reason but the element ceiling.
C10_FailedUriKept ==
  /\ pc = "threw" => TooManyElements(NumTags(head, dom), opts.maxElemsToParse)
  /\ (pc = "done" /\ result.kind = "article") =>
       \A n \in NodeIds :
         (IsElement(body0, n) /\ work[n].tag = body0[n].tag) =>
           /\ \A a \in {"href", "src", "poster"} :
                (body0[n][a] # NoUri /\ ~ Resolves(body0[n][a], head.baseURI)) =>
                  work[n][a] = body0[n][a]
           /\ Len(work[n].srcset) = Len(body0[n].srcset)
           /\ \A i \in 1 .. Len(body0[n].srcset) :
                ~ Resolves(body0[n].srcset[i], head.baseURI) =>
                  work[n].srcset[i] = body0[n].srcset[i]

(***************************************************************************)
(* The properties checked of _getArticleTitle.                             *)
(***************************************************************************)
\* Whether the document title is "A | B" with more than four
\* whitespace-separated tokens, A at least as long as B.
TitleWithLongerFirstSegment ==
  /\ Len(head.title) = 3
  /\ head.title[2] \in SpacedSeparators
  /\ head.title[1] \notin Separators /\ head.title[3] \notin Separators
  /\ WordCount(head.title) > 4
  /\ TokenLen(head.title[1]) >= TokenLen(head.title[3])

\* Whether the title of the article is the one _getArticleTitle returned:
\* neither JSON-LD nor a META element supplied one.
TitleFromDocument ==
  /\ pc \notin {"start", "jsonld", "prepdoc", "metadata", "threw"}
  /\ jsonLd.title = <<>> /\ head.metas = <<>>

\* C11: for a document title "A | B" of more than four whitespace-separated
\* tokens whose first segment is the longest, _getArticleTitle returns the
\* segment before the separator or the unchanged title, never the segment
\* after the separator alone.
C11_FirstSegmentOrRawTitle ==
  (TitleFromDocument /\ TitleWithLongerFirstSegment) =>
    art.title \in {<<head.title[1]>>, head.title}

(***************************************************************************)
(* The properties checked of the order of the stages of parse().           *)
(***************************************************************************)
\* Whether the preprocessor has completed on the document: no script is
\* left, no FONT element, and no run of BR elements to turn into a paragraph.
Preprocessed(h, t) ==
  /\ h.scripts = <<>>
  /\ GetAllNodesWithTag(t, Root, {"SCRIPT", "NOSCRIPT", "FONT"}) = <<>>
  /\ Collect(ReplaceBrs(t, Root), {Root}) = t

\* The positions parse() can be at after one step from position p.
StageSuccessors(p) ==
  CASE p = "start" -> {"jsonld", "threw"}
    [] p = "jsonld" -> {"prepdoc"}
    [] p = "prepdoc" -> {"metadata"}
    [] p = "metadata" -> {"attempt"}
    [] p = "attempt" -> {"walk"}
    [] p = "walk" -> {"walk", "join"}
    [] p = "join" -> {"sanitize"}
    [] p = "sanitize" -> {"check"}
    [] p = "check" -> {"post", "attempt", "fallback"}
    [] p = "fallback" -> {"post", "done"}
    [] p = "post" -> {"done"}
    [] OTHER -> {}

\* C12 (amended): the stages run in one fixed order, but the JSON-LD scan
\* comes before the preprocessor: it reads every script of the document as
\* it was given, and only then are the scripts removed and the body
\* normalised.  The META scan and the title fall-back read the preprocessed
\* document, and scoring, sibling collection, sanitising and finalising
\* follow in that order once the metadata is resolved.
C12_StageOrder ==
  [][/\ pc' \in StageSuccessors(pc)
     /\ pc = "jsonld" =>
          /\ jsonLd' = ReadScripts(head.scripts, NoMetadata,
                                   GetArticleTitle(head.title, dom, Root)).metadata
          /\ UNCHANGED <<head, dom, metadata>>
     /\ pc = "prepdoc" => Preprocessed(head', dom') /\ UNCHANGED <<jsonLd, metadata>>
     /\ pc = "metadata" =>
          /\ Preprocessed(head, dom)
          /\ metadata' = GetArticleMetadata(jsonLd, head, dom, Root)
          /\ UNCHANGED <<head, dom, jsonLd>>
     /\ pc \in {"attempt", "walk", "join", "sanitize", "check", "fallback"} =>
          UNCHANGED <<head, dom, jsonLd, metadata>>]_vars

\* C12 as stated: the JSON-LD scan and the META scan start only when the
\* whole preprocessor has completed.
C12_MetadataAfterPreprocessor ==
  pc \in {"jsonld", "metadata"} => Preprocessed(head, dom)

\* Scoring is about to start with a title read from a JSON-LD script that
\* the preprocessor has removed since.
C12_Witness ==
  /\ pc = "attempt" /\ hist = <<>>
  /\ jsonLd.title # <<>> /\ metadata.title = jsonLd.title
  /\ Preprocessed(head, dom)

(***************************************************************************)
(* The properties checked of the byline and the text direction.            *)
(***************************************************************************)
\* The attempt whose content parse() returns: the one that met the
\* threshold, or the earliest longest one when all four fell short.
ReturnedAttempt == IF AllAttemptsFailed THEN EarliestLongest ELSE Len(hist)

\* C13: on every return path the byline of the result is the one of the
\* metadata (JSON-LD or META) when there is one, and otherwise the byline
\* found in the document during the attempt whose content is returned,
\* whether that attempt met the threshold or is the longest failed one.
C13_BylinePrecedence ==
  (pc = "done" /\ result.kind = "article") =>
    result.byline = IF metadata.byline # <<>> THEN metadata.byline
                    ELSE hist[ReturnedAttempt].byl

\* The dir attribute of the final container of the returned content.
ContainerDir ==
  LET pages == {n \in NodeIds : work[n].id = "readability-page-1"}
  IN  IF pages = {} THEN "" ELSE work[CHOOSE n \in pages : TRUE].dir

\* The first dir attribute on the chain of the top candidate of an attempt as
\* it stood in the scored tree: its parent, the candidate, then the ancestors
\* of the parent.
ScoredChainDir(attempt) ==
  LET t == attempt.scored
      top == attempt.top
  IN  IF top = Nil THEN ""
      ELSE IF t[top].par = Nil THEN t[top].dir
      ELSE FirstDir(t, <<t[top].par, top>> \o GetNodeAncestors(t, t[top].par, 0))

\* C14: the text direction is the first dir attribute on the chain of the
\* top candidate as it stood in the scored tree, and only when that chain
\* has none the dir of the final container, then of BODY, then of HTML: an
\* ancestor of the top candidate with dir wins over BODY and HTML.
C14_DirFromScoredChain ==
  (pc = "done" /\ result.kind = "article") =>
    result.dir = IF ScoredChainDir(hist[ReturnedAttempt]) # ""
                   THEN ScoredChainDir(hist[ReturnedAttempt])
                 ELSE IF ContainerDir # "" THEN ContainerDir
                 ELSE IF body0[Root].dir # "" THEN body0[Root].dir
                 ELSE head.dir


\* The elements of the container n, n included.
ContainerElements(t, n) == {n} \cup SeqToSet(AllElements(t, n))

\* The step of parse() that post-processes the content and returns it.
PostProcessed == pc = "post" /\ pc' = "done"

\* After post-processing without keepClasses, every element of the returned
\* container has no class or a class of the preserve list.
OnlyPreservedClasses ==
  (PostProcessed /\ ~opts.keepClasses) =>
    \A i \in ContainerElements(work', sel.ac) :
      work'[i].cls \in {""} \cup CLASSES_TO_PRESERVE \cup opts.classesToPreserve

\* C15, as amended: after post-processing with keepClasses false, every
\* element of the returned container, the root included, has no class or a
\* class of the preserve list ("page" and options.classesToPreserve); with
\* keepClasses true every element of the returned container keeps its class,
\* except that a DIV or SECTION that was collapsed onto its only child has
\* given the child its class.
C15_ClassesCleaned ==
  [][ /\ OnlyPreservedClasses
      /\ (PostProcessed /\ opts.keepClasses) =>
           \A i \in ContainerElements(work', sel.ac) :
             \/ work'[i].cls = work[i].cls
             \/ \E j \in SeqToSet(GetNodeAncestors(work, i, 0)) :
                  /\ j \notin ContainerElements(work', sel.ac)
                  /\ work[j].tag \in {"DIV", "SECTION"}
                  /\ work[j].cls = work'[i].cls ]_vars

\* C15, as stated: with keepClasses false only classes of the preserve list
\* are left in the returned container, and with keepClasses true no class
\* attribute is changed by post-processing.
C15_NoClassChanged ==
  [][ /\ OnlyPreservedClasses
      /\ (PostProcessed /\ opts.keepClasses) =>
           \A i \in ContainerElements(work', sel.ac) : work'[i].cls = work[i].cls ]_vars

\* An article was returned without keepClasses: the class of an element of
\* the document, which is not in the preserve list, was stripped.
C15_Witness ==
  /\ pc = "done" /\ result.kind = "article"
  /\ ~opts.keepClasses /\ opts.classesToPreserve = {"content"}
  /\ \E j \in ContainerElements(work, sel.ac) :
       body0[j].cls = "promo" /\ work[j].cls = ""


\* Whether the element to score e adds to the score of its ancestors in t.
Scores(t, e) == t[e].par # Nil /\ GetInnerTextLength(t, e) >= 25

\* The levels at which a is among the ancestors that e scores.
LevelsOf(t, e, a) ==
  {l \in 1 .. Len(GetNodeAncestors(t, e, 5)) : GetNodeAncestors(t, e, 5)[l] = a}

RECURSIVE ReceivedScore(_, _, _)
\* What the elements to score els add to the score of a, each once.
ReceivedScore(t, els, a) ==
  IF els = <<>> THEN RInt(0)
  ELSE LET e == Head(els)
           levels == LevelsOf(t, e, a)
           share == IF Scores(t, e) /\ levels # {}
                      THEN Rat(1 + GetCharCount(t, e)
                                 + Min(GetInnerTextLength(t, e) \div 100, 3),
                               ScoreDivider((CHOOSE l \in levels : TRUE) - 1))
                      ELSE RInt(0)
       IN  RAdd(share, ReceivedScore(t, Tail(els), a))

\* The elements that the scoring of els makes candidates.
ScoredElements(t, els) ==
  {a \in NodeIds : /\ IsElement(t, a) /\ t[a].par # Nil
                   /\ \E i \in 1 .. Len(els) : Scores(t, els[i]) /\ LevelsOf(t, els[i], a) # {}}

\* The score of a scored element whose state was created once and whose
\* link density was applied once.
ScoredOnce(fl, t, els, a) ==
  LET ld == GetLinkDensity(t, a)
  IN  RMul(RAdd(RInt(TagScore(t[a].tag) + GetClassWeight(fl, t, a)),
                ReceivedScore(t, els, a)),
           Rat(ld.d - ld.n, ld.d))

\* C16: within one attempt the readability state of each element is created
\* once, with the base score of its tag and its class weight; each scored
\* element is a candidate once, so that its link density scales its score
\* once; and at the start of every attempt no element of the working clone
\* has score state.
C16_ScoreStateOnce ==
  [][ /\ (pc = "walk" /\ pc' = "join") =>
           \A a \in NodeIds :
             IF a \in ScoredElements(work, walk.els)
               THEN work'[a].sc = ScoredOnce(flags, work, walk.els, a)
               ELSE HasReadability(work', a) =>
                      work'[a].sc = RInt(TagScore(work'[a].tag)
                                           + GetClassWeight(flags, work', a))
      /\ (pc = "attempt" /\ pc' = "walk") =>
           \A a \in NodeIds : ~ HasReadability(work', a) ]_vars

\* A second attempt has started on a clone without score state, after a
\* first attempt in which an element with links in it was scored.
C16_Witness ==
  /\ Len(hist) >= 2 /\ pc = "walk"
  /\ \A a \in NodeIds : ~ HasReadability(work, a)
  /\ \E a \in NodeIds :
       /\ HasReadability(hist[1].scored, a)
       /\ GetLinkDensity(hist[1].scored, a).n > 0
       /\ hist[1].scored[a].sc.n > 0


\* The candidates of the attempt, in the order the scoring found them.
Candidates == ScoreElements(flags, <<work, <<>> >>, walk.els)

\* The tree and the top-candidates list after the first k candidates.
RankedAfter(k) ==
  RankCandidates(opts.nbTopCandidates, <<Candidates[1], <<>> >>, SubSeq(Candidates[2], 1, k))

\* The list tops is the ranking of the candidates seen, by their scores in t.
IsTopRanking(nb, t, tops, seen) ==
  /\ Len(tops) <= nb
  /\ SeqToSet(tops) \subseteq SeqToSet(seen)
  /\ \A i, j \in 1 .. Len(tops) : i < j => tops[i] # tops[j] /\ RLe(t[tops[j]].sc, t[tops[i]].sc)
  /\ \A i \in 1 .. Len(seen) :
       seen[i] \notin SeqToSet(tops) =>
         Cardinality({j \in 1 .. Len(seen) : j # i /\ RLe(t[seen[i]].sc, t[seen[j]].sc)}) >= nb
  /\ seen # <<>> =>
       /\ tops # <<>>
       /\ \A i \in 1 .. Len(seen) : RLe(t[seen[i]].sc, t[tops[1]].sc)

\* C17: after each candidate is processed, the top-candidates list holds at
\* most nbTopCandidates different elements in the order of their scores,
\* highest first; a candidate seen is missing from it only if nbTopCandidates
\* other candidates seen score at least as high; and its first element has
\* the highest score of the candidates seen.
C17_TopCandidatesRanked ==
  [][ (pc = "walk" /\ pc' = "join") =>
        /\ \A k \in 0 .. Len(Candidates[2]) :
             IsTopRanking(opts.nbTopCandidates, RankedAfter(k)[1], RankedAfter(k)[2],
                          SubSeq(Candidates[2], 1, k))
        /\ sel'.tops = RankedAfter(Len(Candidates[2]))[2] ]_vars

\* The candidates of an attempt were ranked with room for one: a candidate
\* with a lower score than the one in the list was left out of it.
C17_Witness ==
  /\ pc = "join" /\ opts.nbTopCandidates = 1
  /\ Len(sel.tops) = 1
  /\ \E i \in 1 .. Len(walk.els) :
       \E a \in SeqToSet(GetNodeAncestors(hist[Len(hist)].scored, walk.els[i], 5)) :
         /\ a # sel.tops[1] /\ HasReadability(work, a)
         /\ RLt(work[a].sc, work[sel.tops[1]].sc)


\* The element n is outside the tree of the attempt.
Detached(t, n) == n \notin ContainerElements(t, Root)

\* The element n is BODY, a link, or inside a TABLE or a CODE element.
ExemptFromStripping(t, n) ==
  \/ t[n].tag \in {"BODY", "A"}
  \/ \E a \in SeqToSet(Ancestors(t, n)) : t[a].tag \in {"TABLE", "CODE"}

\* A reason other than its class and id for which the walk removes the
\* node it is at.
RemovedForAnotherReason ==
  LET n == walk.node
  IN  \/ ~ IsProbablyVisible(work, n)
      \/ work[n].amodal /\ work[n].role = "dialog"
      \/ walk.byl = <<>> /\ IsValidByline(work, n)
      \/ walk.rmh /\ art.title # <<>> /\ HeaderDuplicatesTitle(work, n, art.title)
      \/ work[n].role \in UNLIKELY_ROLES
      \/ /\ work[n].tag \in {"DIV", "SECTION", "HEADER", "H1", "H2", "H3", "H4", "H5", "H6"}
         /\ IsElementWithoutContent(work, n)

\* C18: under the StripUnlikely flag, an element whose class and id match the
\* unlikely-candidate pattern is not removed for that reason when it is BODY,
\* a link, or has a TABLE or CODE ancestor.
C18_ExemptFromStripping ==
  [][ ( /\ pc = "walk" /\ walk.node # Nil
        /\ ~ Detached(work, walk.node)
        /\ FlagIsActive(flags, FLAG_STRIP_UNLIKELYS)
        /\ Matches(unlikelyCandidates, work, walk.node)
        /\ ExemptFromStripping(work, walk.node)
        /\ Detached(work', walk.node) )
      => RemovedForAnotherReason ]_vars


RECURSIVE TreeBefore(_, _, _, _, _)
\* The tree of _prepArticle before its i-th statement.
TreeBefore(fl, title, t, ac, i) ==
  IF i = 1 THEN t
  ELSE LET before == TreeBefore(fl, title, t, ac, i - 1)
       IN  IF DOMAIN before = NodeIds
             THEN Tabulate(PrepStatement(fl, title, before, ac, PrepStatements[i - 1]))
             ELSE before

\* The element n is a marked data table, or inside one, or inside a CODE
\* element, at any depth.
ExemptFromCleaning(t, n) ==
  \/ t[n].tag = "TABLE" /\ t[n].dt
  \/ \E a \in SeqToSet(Ancestors(t, n)) : t[a].tag = "TABLE" /\ t[a].dt
  \/ \E a \in SeqToSet(Ancestors(t, n)) : t[a].tag = "CODE"

\* The elements of the container that the i-th statement of _prepArticle
\* takes out of their parents.
RemovedByStatement(i) ==
  LET before == TreeBefore(flags, art.title, work, sel.ac, i)
      after == PrepStatement(flags, art.title, before, sel.ac, PrepStatements[i])
  IN  {n \in ContainerElements(before, sel.ac) :
         /\ before[n].par # Nil /\ after[n].par = Nil
         /\ ExemptFromCleaning(before, n)}

\* C19: conditional cleaning removes no element that is a marked data table,
\* that has a marked data table among its ancestors, or that has a CODE
\* element among its ancestors, at any depth.
C19_ExemptFromCleaning ==
  (pc = "sanitize") =>
    \A i \in 1 .. Len(PrepStatements) :
      PrepStatements[i][1] = "_cleanConditionally" => RemovedByStatement(i) = {}


\* The element n of the tree t has list items and no paragraphs in it, and
\* the text of its list items is more than half of its text.
MostlyListItems(t, n) ==
  /\ GetAllNodesWithTag(t, n, {"LI"}) # <<>>
  /\ GetAllNodesWithTag(t, n, {"P"}) = <<>>
  /\ 2 * LengthOfTags(t, GetAllNodesWithTag(t, n, {"LI"}), {"LI"}) > GetInnerTextLength(t, n)

\* The elements that the i-th statement of _prepArticle, a conditional
\* cleaning of tables, divs, forms or fieldsets, is to remove for their list
\* items, and leaves in place.
KeptListWrappers(i) ==
  LET before == TreeBefore(flags, art.title, work, sel.ac, i)
      after == PrepStatement(flags, art.title, before, sel.ac, PrepStatements[i])
  IN  {n \in SeqToSet(GetAllNodesWithTag(before, sel.ac, {PrepStatements[i][2]})) :
         /\ before[n].par # Nil
         /\ ~ ExemptFromCleaning(before, n)
         /\ GetCharCount(before, n) < 10
         /\ MostlyListItems(before, n)
         /\ after[n].par # Nil}

\* C20: with CleanConditionally active and fewer than 10 commas in the node,
\* conditional cleaning removes a table, div, form or fieldset that has list
\* items and no paragraphs in it and whose list-item text is more than half
\* of its text, also when no other strict rule applies to it.
C20_ListWrapperRemoved ==
  (pc = "sanitize" /\ FlagIsActive(flags, FLAG_CLEAN_CONDITIONALLY)) =>
    \A i \in 1 .. Len(PrepStatements) :
      ( /\ PrepStatements[i][1] = "_cleanConditionally"
        /\ PrepStatements[i][2] \in {"TABLE", "DIV", "FORM", "FIELDSET"} )
      => KeptListWrappers(i) = {}


\* The tree t without its class and id attributes.
WithoutClasses(t) ==
  Tabulate([i \in NodeIds |-> [t[i] EXCEPT !.cls = "", !.id = ""]])

\* The nodes that the statement s of _prepArticle takes out of their parents
\* in the tree t.
RemovedFrom(t, s) ==
  LET after == PrepStatement(flags, art.title, t, sel.ac, s)
  IN  {n \in NodeIds : t[n].par # Nil /\ after[n].par = Nil}

\* Without WeightClasses the score of a scored element has no class weight
\* in it, and an element that was only initialized has the score of its tag.
ScoredWithoutWeight ==
  \A a \in NodeIds :
    IF a \in ScoredElements(work, walk.els)
      THEN work'[a].sc =
             RMul(RAdd(RInt(TagScore(work[a].tag)), ReceivedScore(work, walk.els, a)),
                  Rat(GetLinkDensity(work, a).d - GetLinkDensity(work, a).n,
                      GetLinkDensity(work, a).d))
      ELSE HasReadability(work', a) => work'[a].sc = RInt(TagScore(work'[a].tag))

\* Without WeightClasses the header cleaning and the conditional cleanings
\* of _prepArticle remove what they remove from the tree without its class
\* and id attributes.
CleanedWithoutWeight ==
  \A i \in 1 .. Len(PrepStatements) :
    PrepStatements[i][1] \in {"_cleanConditionally", "_cleanHeaders"} =>
      LET before == TreeBefore(flags, art.title, work, sel.ac, i)
      IN  RemovedFrom(before, PrepStatements[i])
            = RemovedFrom(WithoutClasses(before), PrepStatements[i])

\* Without CleanConditionally the conditional cleanings remove nothing.
NothingCleanedConditionally ==
  \A i \in 1 .. Len(PrepStatements) :
    PrepStatements[i][1] = "_cleanConditionally" =>
      RemovedFrom(TreeBefore(flags, art.title, work, sel.ac, i), PrepStatements[i]) = {}

\* Without StripUnlikely the walk removes the node it is at only because it
\* is hidden, a modal dialog, the byline, a header that repeats the title, or
\* an element without content.
RemovedButNotStripped ==
  LET n == walk.node
  IN  \/ ~ IsProbablyVisible(work, n)
      \/ work[n].amodal /\ work[n].role = "dialog"
      \/ walk.byl = <<>> /\ IsValidByline(work, n)
      \/ walk.rmh /\ art.title # <<>> /\ HeaderDuplicatesTitle(work, n, art.title)
      \/ /\ work[n].tag \in {"DIV", "SECTION", "HEADER", "H1", "H2", "H3", "H4", "H5", "H6"}
         /\ IsElementWithoutContent(work, n)

\* C21: a heuristic is applied in an attempt only if its flag is in the flag
\* set of the attempt.  Without WeightClasses no class or id weight enters a
\* score or removes a header or a conditionally cleaned node; without
\* CleanConditionally _cleanConditionally removes nothing; without
\* StripUnlikely no node is removed for the unlikely pattern or for its role.
C21_HeuristicsFollowFlags ==
  [][ /\ (pc = "walk" /\ pc' = "join" /\ ~ FlagIsActive(flags, FLAG_WEIGHT_CLASSES))
           => ScoredWithoutWeight
      /\ (pc = "sanitize" /\ pc' = "check" /\ ~ FlagIsActive(flags, FLAG_WEIGHT_CLASSES))
           => CleanedWithoutWeight
      /\ (pc = "sanitize" /\ pc' = "check" /\ ~ FlagIsActive(flags, FLAG_CLEAN_CONDITIONALLY))
           => NothingCleanedConditionally
      /\ ( /\ pc = "walk" /\ walk.node # Nil /\ ~ FlagIsActive(flags, FLAG_STRIP_UNLIKELYS)
           /\ ~ Detached(work, walk.node) /\ Detached(work', walk.node)
           /\ Len(work'[work[walk.node].par].kids) < Len(work[work[walk.node].par].kids) )
           => RemovedButNotStripped ]_vars

\* The last attempt, without any flag, has prepared its article: an element
\* with a negative class that the first attempt stripped and the third would
\* have scored lower was scored, and is in the article.
C21_Witness ==
  /\ pc = "check" /\ flags = {} /\ Len(hist) = 4
  /\ \E a \in ContainerElements(work, sel.ac) :
       /\ work[a].cls \in unlikelyCandidates \cap negative
       /\ HasReadability(work, a)
       /\ Detached(hist[1].scored, a)


\* The inclusion rule for the child s of the parent of the top candidate.
Included(t, s, top) ==
  LET bonus == IF t[top].cls # "" /\ t[s].cls = t[top].cls
                 THEN RMul(t[top].sc, Rat(1, 5)) ELSE RInt(0)
      length == GetInnerTextLength(t, s)
  IN  \/ s = top
      \/ HasReadability(t, s)
           /\ RLe(RMax(RInt(10), RMul(t[top].sc, Rat(1, 5))), RAdd(t[s].sc, bonus))
      \/ t[s].tag = "P" /\ length > 80 /\ RLt(GetLinkDensity(t, s), Rat(1, 4))
      \/ t[s].tag = "P" /\ length > 0 /\ length < 80 /\ GetLinkDensity(t, s).n = 0
           /\ HasPeriod(t, s)

\* The child c of the container in the tree after is the element s of the
\* tree before: s itself, or s retagged to DIV when its tag is none of div,
\* article, section, p, ol and ul.
JoinedAs(before, after, s, c) ==
  IF before[s].tag \in {"DIV", "ARTICLE", "SECTION", "P", "OL", "UL"}
    THEN c = s /\ after[c].tag = before[s].tag
    ELSE /\ after[c].tag = "DIV"
         /\ after[c].kids = before[s].kids
         /\ after[c].cls = before[s].cls /\ after[c].sc = before[s].sc

\* C22: when the top candidate is not synthesized, the article container
\* holds exactly the children of the parent of the top candidate that
\* satisfy the inclusion rule, in document order, those with a tag other than
\* div, article, section, p, ol and ul retagged to div; the top candidate is
\* among them.
C22_SiblingsJoined ==
  [][ (pc = "join" /\ pc' = "sanitize" /\ ~ sel.needed) =>
        LET siblings == Children(work, work[sel.top].par)
            joined == SelectSeq(siblings, LAMBDA s : Included(work, s, sel.top))
            content == Children(work', sel'.ac)
        IN  /\ work[sel.top].par # Nil
            /\ sel.top \in SeqToSet(joined)
            /\ Len(content) = Len(joined)
            /\ work'[sel'.ac].kids = content
            /\ \A k \in 1 .. Len(joined) : JoinedAs(work, work', joined[k], content[k]) ]_vars

\* The siblings of a top candidate were joined: the top candidate, a
\* BLOCKQUOTE, is in the container as a DIV, the paragraph after it joined
\* for its text, and the paragraph before it was left out.
C22_Witness ==
  /\ pc = "sanitize" /\ ~ sel.needed
  /\ hist[Len(hist)].scored[sel.top].tag = "BLOCKQUOTE"
  /\ Len(work[sel.ac].kids) = 2
  /\ work[work[sel.ac].kids[1]].tag = "DIV"
  /\ work[work[sel.ac].kids[1]].sc = hist[Len(hist)].scored[sel.top].sc
  /\ work[work[sel.ac].kids[2]].tag = "P"
  /\ ~ HasReadability(work, work[sel.ac].kids[2])


\* The element after n in the sequence s, or Nil.
ElementAfter(s, n) ==
  IF IndexOf(s, n) = 0 \/ IndexOf(s, n) = Len(s) THEN Nil ELSE s[IndexOf(s, n) + 1]

\* The first element after the subtree of n in the document order of t, or
\* Nil.
ElementAfterSubtree(t, n) ==
  LET order == AllElements(t, Root)
      later == SelectSeq(SubSeq(order, IndexOf(order, n) + 1, Len(order)),
                         LAMBDA k : k \notin SeqToSet(Descendants(t, n)))
  IN  IF later = <<>> THEN Nil ELSE later[1]

\* One iteration of the walk moves on in the pre-order of the clone: after a
\* removal to the first element after the removed subtree, after a
\* replacement to the element that took the place of the node, and otherwise
\* to the next element of the tree as the iteration left it.
WalksInPreOrder ==
  LET n == walk.node
      parent == work[n].par
  IN  IF Detached(work', n) /\ Len(work'[parent].kids) < Len(work[parent].kids)
        THEN /\ walk'.node = ElementAfterSubtree(work, n)
             /\ walk'.node \notin SeqToSet(Descendants(work, n))
      ELSE IF Detached(work', n)
        THEN /\ work'[walk'.node].par = parent
             /\ IndexOf(work'[parent].kids, walk'.node) = IndexOf(work[parent].kids, n)
      ELSE walk'.node = ElementAfter(AllElements(work', Root), n)

\* What is left of the walk at the node n of the tree t: the elements from n
\* on in document order, a DIV counted with the paragraphs its children can
\* be wrapped in and with its own replacement.
WalkLeft(t, n) ==
  LET order == AllElements(t, Root)
      left == SubSeq(order, IndexOf(order, n), Len(order))
  IN  IF n = Nil THEN 0
      ELSE SumSeq([i \in 1 .. Len(left) |->
                     IF t[left[i]].tag = "DIV" THEN 2 + Len(t[left[i]].kids) ELSE 1])

\* C23: the node walk of an attempt ends on every tree (each iteration
\* leaves less of the walk than it found); it visits the elements in
\* depth-first pre-order, is never at a node outside the working clone, and
\* after the removal of a node goes on with the first element after the
\* removed subtree.
C23_WalkInPreOrder ==
  [][ (pc = "walk" /\ walk.node # Nil) =>
        /\ walk.node \in SeqToSet(AllElements(work, Root))
        /\ WalksInPreOrder
        /\ WalkLeft(work', walk'.node) < WalkLeft(work, walk.node) ]_vars

\* The walk of an attempt has ended, after it removed an element that had
\* an element in it and went on with the element after it.
C23_Witness ==
  /\ pc = "join"
  /\ \E n \in SeqToSet(AllElements(hist[Len(hist)].start, Root)) :
       /\ Detached(work, n)
       /\ AllElements(hist[Len(hist)].start, n) # <<>>
       /\ ElementAfterSubtree(hist[Len(hist)].start, n) # Nil
       /\ work[n].kids = hist[Len(hist)].start[n].kids


\* The top candidate of the attempt before the parent-score refinement, in
\* the tree with the scores of the candidates.
TopBeforeClimb ==
  LET ranked == RankedAfter(Len(Candidates[2]))
  IN  PromoteCommon(ranked[1], ranked[2][1], AlternativeAncestors(ranked[1], ranked[2]))

\* The scored ancestors of the element n below BODY, the parent first.
ScoredAncestors(t, n) ==
  SelectSeq(Ancestors(t, n), LAMBDA a : t[a].tag # "BODY" /\ HasReadability(t, a))

\* The refinement as the code makes it: the scored ancestors are gone through
\* once, up to the first that scores less than a third of the top candidate;
\* the first that scores higher than the one before it (the top candidate
\* before the first) is adopted, and the refinement ends.
AdoptedOnce(t, top) ==
  LET chain == <<top>> \o ScoredAncestors(t, top)
      rising == {k \in 2 .. Len(chain) :
                   /\ RLt(t[chain[k - 1]].sc, t[chain[k]].sc)
                   /\ \A j \in 2 .. k : RLe(RMul(t[top].sc, Rat(1, 3)), t[chain[j]].sc)}
  IN  IF rising = {} THEN top
      ELSE chain[CHOOSE k \in rising : \A j \in rising : k <= j]

\* An attempt with candidates and a top candidate other than BODY selects.
Refines ==
  /\ pc = "walk" /\ pc' = "join"
  /\ Candidates[2] # <<>>
  /\ ~ sel'.needed

\* C24, as amended: the parent-score refinement goes through the scored
\* ancestors of the top candidate below BODY once; it ends without a change
\* at the first that scores less than a third of the top candidate, and it
\* adopts the first that scores higher than the ancestor before it, and then
\* ends.
C24_AdoptsOnce ==
  [][ Refines =>
        sel'.top = OnlyChildParent(RankedAfter(Len(Candidates[2]))[1],
                     AdoptedOnce(RankedAfter(Len(Candidates[2]))[1], TopBeforeClimb)) ]_vars

\* C24, as stated: as long as the parent of the current best scores more
\* than a third of its score and higher than it, the parent is adopted and
\* the climb goes on from it.
C24_ClimbsRepeatedly ==
  [][ Refines =>
        sel'.top = OnlyChildParent(RankedAfter(Len(Candidates[2]))[1],
                     HigherParent(RankedAfter(Len(Candidates[2]))[1],
                                  RankedAfter(Len(Candidates[2]))[1][TopBeforeClimb].par,
                                  RankedAfter(Len(Candidates[2]))[1][TopBeforeClimb].sc,
                                  RMul(RankedAfter(Len(Candidates[2]))[1][TopBeforeClimb].sc,
                                       Rat(1, 3)),
                                  TopBeforeClimb)) ]_vars

\* The refinement adopted the grandparent of the top-scoring candidate,
\* which scores lower than the candidate and higher than its parent.
C24_Witness ==
  /\ pc = "join" /\ ~ sel.needed /\ sel.tops # <<>>
  /\ work[sel.tops[1]].par # Nil
  /\ sel.top = work[work[sel.tops[1]].par].par
  /\ RLt(work[sel.top].sc, work[sel.tops[1]].sc)
  /\ RLt(work[work[sel.tops[1]].par].sc, work[sel.top].sc)


\* The ancestors that received the content score of an element more often
\* than once.  The scoring goes through the list entry by entry, so an
\* element that is in the list twice adds its score to its ancestors twice.
ListedTwice ==
  {i \in 1 .. Len(walk.els) : \E j \in 1 .. Len(walk.els) : j < i /\ walk.els[j] = walk.els[i]}

\* C26: within one attempt each element is added to the scoring list at most
\* once, the P elements that come from unwrapping a DIV with a single P or
\* from retagging a DIV without block children included.
C26_ListedOnce ==
  pc = "walk" => ListedTwice = {}


\* The fetch events that are being answered, and the step that settles the
\* k-th of them.
Settles(k) == sw.requests[k].pc # "free" /\ sw'.requests[k] # sw.requests[k]

\* C25: cache.put of the fetch listener only ever receives a response with
\* status 200 and type basic to a GET request; a request of another method
\* is not intercepted; and a GET request with a match in the caches is
\* answered with the match, without a fetch from the network.
C25_RuntimeCache ==
  [][ /\ \A e \in sw'.put :
           e.method = "GET" /\ e.response.status = 200 /\ e.response.type = "basic"
      /\ \A i \in 1 .. Len(sw'.toPut) :
           /\ sw'.toPut[i].method = "GET"
           /\ sw'.toPut[i].response.status = 200
           /\ sw'.toPut[i].response.type = "basic"
      /\ \A k \in DOMAIN sw'.requests :
           sw'.requests[k].pc # "free" => sw'.requests[k].method = "GET"
      /\ sw'.answer.method \notin {"", "GET"} => sw'.answer.source = "browser"
      /\ \A k \in DOMAIN sw.requests :
           /\ Settles(k)
           /\ sw.requests[k].pc = "match"
           /\ \E name \in CacheNames :
                \E r \in sw.caches[name] : r.url = sw.requests[k].url
           => /\ sw'.requests[k].pc = "free"
              /\ sw'.answer.source = "cache"
              /\ \E name \in CacheNames : sw'.answer.response \in sw.caches[name]
              /\ sw'.answer.response.url = sw.requests[k].url
              /\ sw'.toPut = sw.toPut ]_vars

\* A GET request for the manifest, which is no core asset, was answered from
\* the cache: with the 200 response of type basic that the listener had put
\* there when it answered an earlier request from the network.
C25_Witness ==
  /\ sw.answer.method = "GET"
  /\ sw.answer.source = "cache"
  /\ sw.answer.response.url = "/ArticleScraper/manifest.json"
  /\ \E e \in sw.put : e.response = sw.answer.response


\* C27: fetchWithRetries issues at most MAX_RETRIES + 1 fetches; a response
\* that is ok is returned without another fetch; and a further fetch is
\* issued only after a 5xx response or an error of the network, so that a
\* call never waits for a further attempt after another status.
C27_RetriesOnlyAfterServerError ==
  \A k \in 1 .. Len(page.calls) :
    LET c == page.calls[k]
    IN  /\ c.fetches <= MAX_RETRIES + 1
        /\ c.pc = "returned" => Ok(c.last) /\ c.fetches = c.i + 1
        /\ c.pc = "delay" =>
             c.last.threw \/ (c.last.status >= 500 /\ c.last.status <= 599)


\* C28: under every interleaving of clicks, Enter keys, the load event with
\* its share parameters, the debounce timer and the settling of fetches, at
\* most one call of handleExtraction is suspended, and handleExtraction is
\* not called while the page is in reset mode.
C28_OneExtraction ==
  [][ /\ Len(page'.calls) <= 1
      /\ page'.event = "handleExtraction" => ~ page.isInResetMode ]_vars

\* A click or an Enter key was ignored while a call of handleExtraction was
\* waiting for a further attempt of its fetch.
C28_Witness ==
  /\ page.event = "ignored"
  /\ Len(page.calls) = 1
  /\ page.calls[1].pc = "delay"
  /\ ~ page.debounceTimer


\* The extract button has one click listener: triggerReset in reset mode,
\* triggerExtractionDebounced else.
OneClickHandler(p) ==
  p.clickHandlers = <<IF p.isInResetMode THEN "triggerReset" ELSE "triggerExtractionDebounced">>

\* C29: between the handlers the extract button has exactly one click
\* listener, triggerReset if and only if isInResetMode; reset mode is entered
\* only by an extraction that succeeded, and left only by resetUI or by an
\* extraction that failed.
C29_OneClickHandler ==
  [][ /\ OneClickHandler(page) /\ OneClickHandler(page')
      /\ ~ page.isInResetMode /\ page'.isInResetMode => page'.event = "extracted"
      /\ page.isInResetMode /\ ~ page'.isInResetMode => page'.event \in {"resetUI", "failed"}
    ]_vars

\* A click in reset mode has called resetUI: the page has left reset mode,
\* and the listener of the button is triggerExtractionDebounced again.
C29_Witness ==
  /\ page.event = "resetUI"
  /\ ~ page.isInResetMode
  /\ page.clickHandlers = <<"triggerExtractionDebounced">>
  /\ page.extractedText = <<>>


\* C30: if the write of the prefix to localStorage fails in saveSettings, the
\* prefix in memory is the one from before the call and the displayed text is
\* unchanged; if the write succeeds, the prefix in memory is the stored one.
C30_PrefixSaved ==
  [][ /\ page'.event = "notSaved" =>
           /\ page'.currentTextPrefix = page.currentTextPrefix
           /\ page'.extractedText = page.extractedText
           /\ page'.storage = page.storage
      /\ page'.event = "saved" =>
           /\ page'.storage = <<page'.currentTextPrefix>>
           /\ page'.currentTextPrefix = page.prefixTextarea ]_vars

\* A write of another prefix than the one in memory failed while an extracted
\* text was displayed.
C30_Witness ==
  /\ page.event = "notSaved"
  /\ page.prefixTextarea # page.currentTextPrefix
  /\ page.extractedText # <<>>
  /\ ~ page.dialogOpen

=============================================================================
